---- MODULE Spec2Model ----
(***************************************************************************)
(* Model of the documentation analysis and template synthesis pipeline of  *)
(* skill-creator-from-docs (scripts/doc_analyzer.py,                       *)
(* scripts/template_synthesizer.py, scripts/create_skill.py).              *)
(*                                                                         *)
(* A Python str is modelled as a sequence of one-character strings, so     *)
(* that substring tests, counts, splits and the regular expressions of the *)
(* source are computed character by character.  The backquote character    *)
(* cannot be written inside a TLA+ string; the token BQ stands for it.     *)
(***************************************************************************)
EXTENDS Integers, Sequences, FiniteSets, TLC

VARIABLES corpus, pc, analysis, templates, saved, clock, run, driver, first,
          validation,
          config, state, state_file, rpc, phase, executed, loaded, result, runs

\* the variables of the analysis and of the synthesis
analysisVars == <<corpus, pc, analysis, templates, saved, clock, run, driver,
                  first, validation>>

\* the variables of SkillCreator.run
pipelineVars == <<config, state, state_file, rpc, phase, executed, loaded,
                  result, runs>>

vars == <<analysisVars, pipelineVars>>

----------------------------------------------------------------------------
(* Characters and the str operations the source uses.                      *)

BQ == "BQ"
NL == "\n"

UpperChars ==
  <<"A","B","C","D","E","F","G","H","I","J","K","L","M",
    "N","O","P","Q","R","S","T","U","V","W","X","Y","Z">>

LowerChars ==
  <<"a","b","c","d","e","f","g","h","i","j","k","l","m",
    "n","o","p","q","r","s","t","u","v","w","x","y","z">>

DigitChars == {"0","1","2","3","4","5","6","7","8","9"}

SpaceChars == {" ", "\t", "\n", "\r"}

Range(f) == {f[i] : i \in DOMAIN f}


UpperSet == Range(UpperChars)

LowerSet == Range(LowerChars)

AlphaChars == UpperSet \cup LowerSet

\* \w of the re module
WordChars == AlphaChars \cup DigitChars \cup {"_"}

Min(a, b) == IF a <= b THEN a ELSE b

Max(a, b) == IF a >= b THEN a ELSE b

LowerChar(c) ==
  IF c \in UpperSet
    THEN LowerChars[CHOOSE i \in 1..26 : UpperChars[i] = c]
    ELSE c

UpperChar(c) ==
  IF c \in LowerSet
    THEN UpperChars[CHOOSE i \in 1..26 : LowerChars[i] = c]
    ELSE c

\* str.lower()
Lower(s) == SubSeq([i \in 1..Len(s) |-> LowerChar(s[i])], 1, Len(s))

\* str.upper()
Upper(s) == SubSeq([i \in 1..Len(s) |-> UpperChar(s[i])], 1, Len(s))

\* s[i:].startswith(sub), i counted from 1
StartsAt(s, sub, i) ==
  /\ i >= 1
  /\ i + Len(sub) - 1 <= Len(s)
  /\ \A j \in 1..Len(sub) : s[i + j - 1] = sub[j]

\* sub in s
Contains(s, sub) == \E i \in 1..(Len(s) - Len(sub) + 1) : StartsAt(s, sub, i)

\* s.find(sub): 0-based position of the first occurrence, -1 when there is none
Find(s, sub) ==
  IF Contains(s, sub)
    THEN (CHOOSE i \in 1..(Len(s) - Len(sub) + 1) :
            /\ StartsAt(s, sub, i)
            /\ \A k \in 1..(i - 1) : ~StartsAt(s, sub, k)) - 1
    ELSE -1

MinOf(set) == CHOOSE a \in set : \A b \in set : a <= b

RECURSIVE CountFrom(_, _, _)
\* the occurrences counted from position i on: the next one, then those after it
CountFrom(s, sub, i) ==
  LET at == {k \in i..(Len(s) - Len(sub) + 1) : StartsAt(s, sub, k)}
  IN  IF at = {} THEN 0 ELSE 1 + CountFrom(s, sub, MinOf(at) + Len(sub))

\* s.count(sub): non-overlapping occurrences, scanned from the left
Count(s, sub) == CountFrom(s, sub, 1)

\* s.split(sep) for a one-character separator
Split(s, sep) ==
  LET idx  == SelectSeq([i \in 1..Len(s) |-> i], LAMBDA i : s[i] = sep)
      cuts == <<0>> \o idx \o <<Len(s) + 1>>
  IN  [k \in 1..(Len(idx) + 1) |-> SubSeq(s, cuts[k] + 1, cuts[k + 1] - 1)]

RECURSIVE Join(_, _)
\* sep.join(parts)
Join(parts, sep) ==
  IF Len(parts) = 0 THEN <<>>
  ELSE IF Len(parts) = 1 THEN parts[1]
  ELSE parts[1] \o sep \o Join(Tail(parts), sep)

\* s.strip(chars)
StripChars(s, chars) ==
  LET keep == {i \in 1..Len(s) : s[i] \notin chars}
  IN  IF keep = {} THEN <<>>
      ELSE SubSeq(s, CHOOSE a \in keep : \A b \in keep : a <= b,
                     CHOOSE a \in keep : \A b \in keep : a >= b)

\* s.strip()
Strip(s) == StripChars(s, SpaceChars)

\* s[a:b] for a >= 0 (Python slice: 0-based, b exclusive and clipped to the
\* length, a negative b counted from the end)
Slice(s, a, b) ==
  SubSeq(s, a + 1, IF b < 0 THEN Max(0, Len(s) + b) ELSE Min(b, Len(s)))

----------------------------------------------------------------------------
(* Fixed tables of DocAnalyzer.                                            *)

CLI_INDICATORS ==
  << <<"c","o","m","m","a","n","d">>,
     <<"f","l","a","g">>,
     <<"o","p","t","i","o","n">>,
     <<"-","-">>,
     <<"u","s","a","g","e",":">>,
     <<"a","r","g","u","m","e","n","t","s",":">>,
     <<"c","l","i">>,
     <<"c","o","m","m","a","n","d","-","l","i","n","e">>,
     <<"t","e","r","m","i","n","a","l">>,
     <<"s","h","e","l","l">>,
     <<"b","a","s","h">>,
     <<"$">> >>

API_INDICATORS ==
  << <<"e","n","d","p","o","i","n","t">>,
     <<"r","e","q","u","e","s","t">>,
     <<"r","e","s","p","o","n","s","e">>,
     <<"P","O","S","T">>,
     <<"G","E","T">>,
     <<"P","U","T">>,
     <<"D","E","L","E","T","E">>,
     <<"a","p","i">>,
     <<"r","e","s","t">>,
     <<"h","t","t","p">>,
     <<"j","s","o","n">>,
     <<"a","u","t","h","e","n","t","i","c","a","t","i","o","n">>,
     <<"h","e","a","d","e","r">> >>

LIBRARY_INDICATORS ==
  << <<"i","m","p","o","r","t">>,
     <<"c","l","a","s","s">>,
     <<"f","u","n","c","t","i","o","n">>,
     <<"m","e","t","h","o","d">>,
     <<"m","o","d","u","l","e">>,
     <<"p","a","c","k","a","g","e">>,
     <<"i","n","s","t","a","l","l">>,
     <<"p","i","p">>,
     <<"n","p","m">>,
     <<"r","e","q","u","i","r","e">>,
     <<"f","r","o","m">>,
     <<"d","e","f"," ">> >>

FRAMEWORK_INDICATORS ==
  << <<"s","c","a","f","f","o","l","d">>,
     <<"g","e","n","e","r","a","t","e">>,
     <<"p","r","o","j","e","c","t">>,
     <<"a","p","p">>,
     <<"c","r","e","a","t","e","-">>,
     <<"f","r","a","m","e","w","o","r","k">>,
     <<"b","o","i","l","e","r","p","l","a","t","e">>,
     <<"t","e","m","p","l","a","t","e">>,
     <<"s","t","r","u","c","t","u","r","e">> >>

GAP_INDICATORS ==
  << <<"s","e","e"," ","d","o","c","u","m","e","n","t","a","t","i","o","n">>,
     <<"r","e","f","e","r"," ","t","o">>,
     <<"a","d","v","a","n","c","e","d"," ","u","s","a","g","e">>,
     <<"f","o","r"," ","m","o","r","e"," ","d","e","t","a","i","l","s">>,
     <<"c","o","m","i","n","g"," ","s","o","o","n">>,
     <<"T","O","D","O">>,
     <<"W","I","P">>,
     <<"n","o","t"," ","d","o","c","u","m","e","n","t","e","d">>,
     <<"t","b","d">> >>

\* the header keywords of extract_workflows
WORKFLOW_KEYWORDS ==
  << <<"w","o","r","k","f","l","o","w">>,
     <<"q","u","i","c","k"," ","s","t","a","r","t">>,
     <<"g","e","t","t","i","n","g"," ","s","t","a","r","t","e","d">>,
     <<"h","o","w"," ","t","o">>,
     <<"t","u","t","o","r","i","a","l">> >>

----------------------------------------------------------------------------
(* DocAnalyzer.classify_tool_type                                          *)

UNKNOWN == <<"u","n","k","n","o","w","n">>

\* the keys of the scores dict, in insertion order
ScoredTypes ==
  << <<"c","l","i">>, <<"a","p","i">>, <<"l","i","b","r","a","r","y">>,
     <<"f","r","a","m","e","w","o","r","k">> >>

IndicatorTables ==
  <<CLI_INDICATORS, API_INDICATORS, LIBRARY_INDICATORS, FRAMEWORK_INDICATORS>>

RECURSIVE SumSeq(_)
SumSeq(q) == IF Len(q) = 0 THEN 0 ELSE Head(q) + SumSeq(Tail(q))

RECURSIVE Concat(_)
\* the concatenation of a sequence of sequences
Concat(qs) == IF Len(qs) = 0 THEN <<>> ELSE Head(qs) \o Concat(Tail(qs))

DigitOf(d) ==
  CASE d = 0 -> "0" [] d = 1 -> "1" [] d = 2 -> "2" [] d = 3 -> "3"
    [] d = 4 -> "4" [] d = 5 -> "5" [] d = 6 -> "6" [] d = 7 -> "7"
    [] d = 8 -> "8" [] d = 9 -> "9"

RECURSIVE Str(_)
\* str(n) of a natural number
Str(n) == IF n < 10 THEN <<DigitOf(n)>> ELSE Str(n \div 10) \o <<DigitOf(n % 10)>>

\* full_content of classify_tool_type: the lowercased pages joined by newlines
ClassifyContent(c) ==
  Join([p \in 1..Len(c.pages) |-> Lower(c.pages[p].content)], <<NL>>)

\* f"Found '{indicator}' {count} times"
FoundMessage(indicator, count) ==
  <<"F","o","u","n","d"," ","'">> \o indicator \o <<"'"," ">>
    \o Str(count) \o <<" ","t","i","m","e","s">>

\* the occurrences counted for the indicators of one list
IndicatorCounts(full, indicators) ==
  SubSeq([i \in 1..Len(indicators) |-> Count(full, Lower(indicators[i]))],
         1, Len(indicators))

\* the score one counting loop adds up
IndicatorScore(full, indicators) == SumSeq(IndicatorCounts(full, indicators))

\* the reasoning strings one counting loop appends
IndicatorReasons(full, indicators) ==
  LET counts == IndicatorCounts(full, indicators)
      hits   == SelectSeq([i \in 1..Len(indicators) |-> i],
                          LAMBDA i : counts[i] > 2)
  IN  [k \in 1..Len(hits) |-> FoundMessage(indicators[hits[k]], counts[hits[k]])]

Scores(c) ==
  LET full == ClassifyContent(c)
  IN  SubSeq([t \in 1..4 |-> IndicatorScore(full, IndicatorTables[t])], 1, 4)

\* the last key, in insertion order, of maximal score
LastWinner(scores) ==
  CHOOSE t \in 1..4 :
    /\ \A u \in 1..4 : scores[u] <= scores[t]
    /\ \A u \in (t + 1)..4 : scores[u] < scores[t]

\* max(scores, key=scores.get): the first key, in insertion order, of maximal score
Winner(scores) ==
  CHOOSE t \in 1..4 :
    /\ \A u \in 1..4 : scores[u] <= scores[t]
    /\ \A u \in 1..(t - 1) : scores[u] < scores[t]

\* Variants of MaxScore that a classification must not be built on: the
\* score of the first type only, and the number of the scores.
FirstScore(scores) == scores[1]

ScoreCount(scores) == Len(scores)

\* max(scores.values())
MaxScore(scores) == CHOOSE m \in Range(scores) : \A t \in 1..4 : scores[t] <= m

\* the cut of "reasoning[:5]"
MaxReasons == 5

\* the reasoning list left uncut
AllReasons(reasoning) == reasoning

\* reasoning[:5]
TopReasons(reasoning) == SubSeq(reasoning, 1, Min(MaxReasons, Len(reasoning)))

\* A float quotient num / den is kept as the pair of its operands; 0.0 is 0 / 1.
classify_tool_type(c) ==
  LET full      == ClassifyContent(c)
      scores    == Scores(c)
      reasoning == Concat([t \in 1..4 |-> IndicatorReasons(full, IndicatorTables[t])])
      winner    == Winner(scores)
      total     == SumSeq(scores)
  IN  IF MaxScore(scores) = 0
        THEN [tool_type  |-> UNKNOWN,
              confidence |-> [num |-> 0, den |-> 1],
              reasoning  |-> << <<"N","o"," ","c","l","e","a","r"," ","i","n","d","i",
                                  "c","a","t","o","r","s"," ","f","o","u","n","d">> >>]
        ELSE [tool_type  |-> ScoredTypes[winner],
              confidence |-> IF total > 0 THEN [num |-> scores[winner], den |-> total]
                                          ELSE [num |-> 0, den |-> 1],
              reasoning  |-> TopReasons(reasoning)]

----------------------------------------------------------------------------
(* DocAnalyzer.extract_workflows                                           *)

\* any(keyword in line.lower() for keyword in [...])
IsWorkflowHeader(line) ==
  \E k \in 1..Len(WORKFLOW_KEYWORDS) : Contains(Lower(line), WORKFLOW_KEYWORDS[k])

\* re.match(r'^\d+\.', s)
MatchesNumbered(s) ==
  \E n \in 1..Len(s) :
    /\ \A i \in 1..n : s[i] \in DigitChars
    /\ n + 1 <= Len(s)
    /\ s[n + 1] = "."

\* re.match(r'^-\s', s)
MatchesBullet(s) == Len(s) >= 2 /\ s[1] = "-" /\ s[2] \in SpaceChars

IsStepLine(line) == MatchesNumbered(Strip(line)) \/ MatchesBullet(Strip(line))

\* Workflow(name=line.strip('#').strip(), description="", steps=[], source_urls=[page.url])
NewWorkflow(line, url) ==
  [name        |-> Strip(StripChars(line, {"#"})),
   description |-> <<>>,
   steps       |-> <<>>,
   frequency   |-> "common",
   examples    |-> <<>>,
   source_urls |-> <<url>>]

\* The loop state of one page: cur is <<>> for None and <<w>> for a workflow w.
\* One iteration of "for i, line in enumerate(lines)".
WorkflowLineStep(st, line, url) ==
  IF IsWorkflowHeader(line)
    THEN [cur   |-> <<NewWorkflow(line, url)>>,
          steps |-> <<>>,
          out   |-> IF st.cur # <<>> /\ st.steps # <<>>
                      THEN Append(st.out, st.cur[1])
                      ELSE st.out]
  ELSE IF IsStepLine(line) /\ st.cur # <<>>
    THEN [st EXCEPT !.steps = Append(@, Strip(line))]
  ELSE st

RECURSIVE WorkflowScan(_, _, _, _)
WorkflowScan(lines, i, st, url) ==
  IF i > Len(lines) THEN st
  ELSE WorkflowScan(lines, i + 1, WorkflowLineStep(st, lines[i], url), url)

\* the body of "for page in corpus.pages", from the workflows found so far
WorkflowsOfPage(page, found) ==
  LET st == WorkflowScan(Split(page.content, NL), 1,
                         [cur |-> <<>>, steps |-> <<>>, out |-> found], page.url)
  IN  IF st.cur # <<>> /\ st.steps # <<>>
        THEN Append(st.out, [st.cur[1] EXCEPT !.steps = st.steps])
        ELSE st.out

RECURSIVE WorkflowPages(_, _, _)
WorkflowPages(pages, p, found) ==
  IF p > Len(pages) THEN found
  ELSE WorkflowPages(pages, p + 1, WorkflowsOfPage(pages[p], found))

\* the workflows found when the pages are scanned as one page, the state of
\* the scanner carried from page to page
WorkflowsAcrossPages(c) ==
  IF c.pages = <<>> THEN <<>>
  ELSE WorkflowsOfPage(
         [url     |-> c.pages[1].url,
          content |-> Join([p \in 1..Len(c.pages) |-> c.pages[p].content], <<NL>>)],
         <<>>)

extract_workflows(c) == WorkflowPages(c.pages, 1, <<>>)

----------------------------------------------------------------------------
(* DocAnalyzer.extract_examples                                            *)

Fence == <<BQ, BQ, BQ>>

\* the length of the longest run of \w characters of s that starts at i
WordRun(s, i) ==
  LET stops == {k \in i..Len(s) : s[k] \notin WordChars}
  IN  IF stops = {} THEN Len(s) + 1 - i
      ELSE (CHOOSE k \in stops : \A m \in stops : k <= m) - i

\* One attempt of the pattern r'```(\w+)?\n(.*?)\n```' (DOTALL) at position i:
\* <<>> when it does not match there, else <<[language, code, next]>> where next
\* is the position after the match.  (\w+)? is greedy and the character after it
\* must be the newline, so it takes the whole run of \w; (.*?) is lazy, so the
\* block ends at the first "\n```" at or after the start of the code.
FenceMatchAt(s, i) ==
  IF ~StartsAt(s, Fence, i) THEN <<>>
  ELSE
    LET n      == WordRun(s, i + 3)
        j      == i + 3 + n + 1
        closes == {k \in j..Len(s) : StartsAt(s, <<NL>> \o Fence, k)}
    IN  IF i + 3 + n > Len(s) \/ s[i + 3 + n] # NL \/ closes = {} THEN <<>>
        ELSE LET k == CHOOSE c \in closes : \A m \in closes : c <= m
             IN  << [language |-> SubSeq(s, i + 3, i + 2 + n),
                     code     |-> SubSeq(s, j, k - 1),
                     next     |-> k + 4] >>

RECURSIVE FindAllFences(_, _)
\* re.findall of the fence pattern, scanning from position i: the first
\* position where it matches, then the matches after that match
FindAllFences(s, i) ==
  LET at == {k \in i..Len(s) : FenceMatchAt(s, k) # <<>>}
  IN  IF at = {} THEN <<>>
      ELSE LET m == FenceMatchAt(s, MinOf(at))[1]
           IN  <<[language |-> m.language, code |-> m.code]>>
                 \o FindAllFences(s, m.next)

\* code_blocks of one page
CodeBlocks(content) == FindAllFences(content, 1)

\* s[-n:]
LastN(q, n) == SubSeq(q, Max(1, Len(q) - n + 1), Len(q))

\* the title loop: the first of the last three context lines that starts with '#'
TitleFrom(ctx, fallback) ==
  LET last3 == LastN(Split(ctx, NL), 3)
      heads == {k \in 1..Len(last3) : Len(last3[k]) > 0 /\ last3[k][1] = "#"}
  IN  IF heads = {} THEN fallback
      ELSE Strip(StripChars(last3[CHOOSE k \in heads : \A m \in heads : k <= m], {"#"}))

\* One iteration of "for i, (language, code) in enumerate(code_blocks)";
\* count is len(examples) before the append.
ExampleOfBlock(page, block, count) ==
  LET language == IF block.language = <<>> THEN UNKNOWN ELSE block.language
      code_pos == Find(page.content, Fence \o language \o <<NL>> \o block.code)
      context  == Strip(Slice(page.content, Max(0, code_pos - 200), code_pos))
  IN  [title        |-> TitleFrom(context,
                                  <<"E","x","a","m","p","l","e"," ">> \o Str(count + 1)),
       language     |-> language,
       code         |-> Strip(block.code),
       source_url   |-> page.url,
       context      |-> IF Len(context) > 100 THEN LastN(context, 100) ELSE context,
       example_type |-> "basic"]

\* a variant of the block loop that keeps the first block of a page only
FirstBlockOnly(page, blocks, b, found) ==
  IF Len(blocks) = 0 THEN found
  ELSE Append(found, ExampleOfBlock(page, blocks[1], Len(found)))

RECURSIVE ExamplesOfBlocks(_, _, _, _)
\* "for i, (language, code) in enumerate(code_blocks)" from block b on
ExamplesOfBlocks(page, blocks, b, found) ==
  IF b > Len(blocks) THEN found
  ELSE ExamplesOfBlocks(page, blocks, b + 1,
                        Append(found, ExampleOfBlock(page, blocks[b], Len(found))))

RECURSIVE ExamplePages(_, _, _)
ExamplePages(pages, p, found) ==
  IF p > Len(pages) THEN found
  ELSE ExamplePages(pages, p + 1,
                    ExamplesOfBlocks(pages[p], CodeBlocks(pages[p].content), 1, found))

extract_examples(c) == ExamplePages(c.pages, 1, <<>>)

----------------------------------------------------------------------------
(* DocAnalyzer.identify_patterns                                           *)

\* the cut of "patterns[:10]"
MaxPatterns == 10

\* the distinct values of q, in the order of their first occurrence (the key
\* order of a dict filled while iterating q)
Distinct(q) ==
  LET firsts == SelectSeq([i \in 1..Len(q) |-> i],
                          LAMBDA i : \A j \in 1..(i - 1) : q[j] # q[i])
  IN  [k \in 1..Len(firsts) |-> q[firsts[k]]]

\* by_language[language]: the 0-based indices of the examples of a language
LanguageMembers(examples, language) ==
  LET at == SelectSeq([i \in 1..Len(examples) |-> i],
                      LAMBDA i : examples[i].language = language)
  IN  [k \in 1..Len(at) |-> at[k] - 1]

\* the (line, idx) pairs one example adds to line_counts: its trimmed lines
\* longer than 10 characters
CountedLines(example, idx) ==
  LET trimmed == [k \in 1..Len(Split(example.code, NL)) |->
                    Strip(Split(example.code, NL)[k])]
      long    == SelectSeq(trimmed, LAMBDA l : Len(l) > 10)
  IN  [k \in 1..Len(long) |-> [line |-> long[k], idx |-> idx]]

\* Pattern(...) for one line of line_counts
NewPattern(language, line, indices) ==
  [name             |-> Upper(language)
                          \o <<" ","c","o","m","m","o","n"," ","p","a","t","t","e","r","n">>,
   description      |-> <<"L","i","n","e"," ","a","p","p","e","a","r","s"," ","i","n"," ">>
                          \o Str(Len(indices)) \o <<" ","e","x","a","m","p","l","e","s">>,
   occurrences      |-> Len(indices),
   example_ids      |-> indices,
   common_structure |-> line,
   variable_parts   |-> <<>>]

\* the patterns of one language group, in the key order of line_counts
PatternsOfLanguage(examples, language) ==
  LET members == LanguageMembers(examples, language)
      entries == Concat([m \in 1..Len(members) |->
                           CountedLines(examples[members[m] + 1], members[m])])
      lines   == Distinct([k \in 1..Len(entries) |-> entries[k].line])
      idsOf(l) == LET hit == SelectSeq(entries, LAMBDA e : e.line = l)
                  IN  [k \in 1..Len(hit) |-> hit[k].idx]
      found   == SelectSeq(lines, LAMBDA l : Len(idsOf(l)) >= 2)
  IN  IF Len(members) < 2 THEN <<>>
      ELSE [k \in 1..Len(found) |-> NewPattern(language, found[k], idsOf(found[k]))]

RECURSIVE InsertByOccurrences(_, _)
\* p placed after every pattern of sorted that has at least its occurrences
InsertByOccurrences(sorted, p) ==
  IF Len(sorted) = 0 THEN <<p>>
  ELSE IF Head(sorted).occurrences >= p.occurrences
    THEN <<Head(sorted)>> \o InsertByOccurrences(Tail(sorted), p)
  ELSE <<p>> \o sorted

RECURSIVE SortByOccurrences(_, _, _)
\* patterns.sort(key=lambda p: p.occurrences, reverse=True): stable, descending
SortByOccurrences(patterns, i, sorted) ==
  IF i > Len(patterns) THEN sorted
  ELSE SortByOccurrences(patterns, i + 1, InsertByOccurrences(sorted, patterns[i]))

\* the pattern list left uncut
AllPatterns(patterns) == patterns

\* patterns[:10]
TopPatterns(patterns) == SubSeq(patterns, 1, Min(MaxPatterns, Len(patterns)))

identify_patterns(examples) ==
  LET languages == Distinct([i \in 1..Len(examples) |-> examples[i].language])
      patterns  == Concat([l \in 1..Len(languages) |->
                             PatternsOfLanguage(examples, languages[l])])
  IN  TopPatterns(SortByOccurrences(patterns, 1, <<>>))

----------------------------------------------------------------------------
(* DocAnalyzer.extract_pitfalls                                            *)

\* The warning sign of the source table is two code points.
PITFALL_KEYWORDS ==
  << <<"w","a","r","n","i","n","g",":">>,
     <<"n","o","t","e",":">>,
     <<"i","m","p","o","r","t","a","n","t",":">>,
     <<"U+26A0","U+FE0F">>,
     <<"c","a","u","t","i","o","n",":">>,
     <<"a","t","t","e","n","t","i","o","n",":">>,
     <<"g","o","t","c","h","a">>,
     <<"c","o","m","m","o","n"," ","m","i","s","t","a","k","e">>,
     <<"p","i","t","f","a","l","l">>,
     <<"e","r","r","o","r",":">>,
     <<"f","a","i","l","s">>,
     <<"d","e","p","r","e","c","a","t","e","d">>,
     <<"b","r","e","a","k","i","n","g"," ","c","h","a","n","g","e">> >>

\* any(word in s for word in words)
ContainsAny(s, words) == \E w \in 1..Len(words) : Contains(s, words[w])

\* a variant of Severity that tests the downgrading words first
DowngradeFirst(line_lower) ==
  IF ContainsAny(line_lower, << <<"n","o","t","e">>, <<"t","i","p">> >>) THEN "low"
  ELSE IF ContainsAny(line_lower, << <<"c","r","i","t","i","c","a","l">>,
                                     <<"b","r","e","a","k","i","n","g">>,
                                     <<"e","r","r","o","r">> >>) THEN "high"
  ELSE "medium"

Severity(line_lower) ==
  IF ContainsAny(line_lower, << <<"c","r","i","t","i","c","a","l">>,
                                <<"b","r","e","a","k","i","n","g">>,
                                <<"e","r","r","o","r">> >>) THEN "high"
  ELSE IF ContainsAny(line_lower, << <<"n","o","t","e">>, <<"t","i","p">> >>) THEN "low"
  ELSE "medium"

\* Pitfall(...) for line i of the page (1-based); context is lines[i:i+3] joined
NewPitfall(lines, i, url) ==
  LET context == Strip(Join(SubSeq(lines, i, Min(i + 2, Len(lines))), <<NL>>))
  IN  [description |-> Slice(context, 0, 200),
       source_url  |-> url,
       severity    |-> Severity(Lower(lines[i])),
       context     |-> context]

\* a variant of the page loop whose keyword loop does not break: one pitfall
\* for each keyword a line holds
PitfallPerKeyword(page) ==
  LET lines == Split(page.content, NL)
      hits  == SelectSeq([h \in 1..(Len(lines) * Len(PITFALL_KEYWORDS)) |->
                            [i |-> ((h - 1) \div Len(PITFALL_KEYWORDS)) + 1,
                             k |-> ((h - 1) % Len(PITFALL_KEYWORDS)) + 1]],
                         LAMBDA h : Contains(Lower(lines[h.i]), PITFALL_KEYWORDS[h.k]))
  IN  [n \in 1..Len(hits) |-> NewPitfall(lines, hits[n].i, page.url)]

\* the pitfalls of one page: one for each line that holds a keyword (the
\* keyword loop breaks at the first hit)
PitfallsOfPage(page) ==
  LET lines == Split(page.content, NL)
      hits  == SelectSeq([i \in 1..Len(lines) |-> i],
                         LAMBDA i : ContainsAny(Lower(lines[i]), PITFALL_KEYWORDS))
  IN  [k \in 1..Len(hits) |-> NewPitfall(lines, hits[k], page.url)]

extract_pitfalls(c) ==
  Concat([p \in 1..Len(c.pages) |-> PitfallsOfPage(c.pages[p])])

----------------------------------------------------------------------------
(* DocAnalyzer.analyze_gaps                                                *)

\* the cut of "gaps[:20]"
MaxGaps == 20

Impact(context) ==
  IF ContainsAny(Lower(context), << <<"i","m","p","o","r","t","a","n","t">>,
                                    <<"r","e","q","u","i","r","e","d">>,
                                    <<"m","u","s","t">> >>) THEN "high"
  ELSE IF ContainsAny(Lower(context), << <<"o","p","t","i","o","n","a","l">>,
                                         <<"a","d","v","a","n","c","e","d">> >>) THEN "low"
  ELSE "medium"

\* "if indicator in content_lower": the indicator is used as written in the
\* table, the content is lowercased
GapIndicatorFound(content, indicator) == Contains(Lower(content), indicator)

\* Gap(...) for an indicator found in the page
NewGap(content, indicator) ==
  LET pos     == Find(Lower(content), indicator)
      context == Slice(content, Max(0, pos - 50), Min(Len(content), pos + 150))
  IN  [description |-> <<"R","e","f","e","r","e","n","c","e"," ","t","o"," ",
                         "e","x","t","e","r","n","a","l"," ","d","o","c","u","m",
                         "e","n","t","a","t","i","o","n",":"," ">>
                         \o Slice(context, 0, 100) \o <<".",".",".">>,
       impact      |-> Impact(context),
       status      |-> "to_research",
       notes       |-> <<"F","o","u","n","d"," ","i","n","d","i","c","a","t","o","r",
                         ":"," ","'">> \o indicator \o <<"'">>]

\* the gaps of one page, in the order of GAP_INDICATORS
GapsOfPage(page) ==
  LET hits == SelectSeq([i \in 1..Len(GAP_INDICATORS) |-> i],
                        LAMBDA i : GapIndicatorFound(page.content, GAP_INDICATORS[i]))
  IN  [k \in 1..Len(hits) |-> NewGap(page.content, GAP_INDICATORS[hits[k]])]

\* the gap list left uncut
AllGaps(gaps) == gaps

\* gaps[:20]
TopGaps(gaps) == SubSeq(gaps, 1, Min(MaxGaps, Len(gaps)))

analyze_gaps(c) == TopGaps(Concat([p \in 1..Len(c.pages) |-> GapsOfPage(c.pages[p])]))

----------------------------------------------------------------------------
(* DocAnalyzer.analyze                                                     *)

\* a list as reversing it in place leaves it
Reversed(list) == [i \in 1..Len(list) |-> list[Len(list) + 1 - i]]

\* A list argument after the stage it was passed to has returned.  The stages
\* after extract_examples only read their list arguments (len, iteration,
\* enumerate, min, sorted, dict.get) and append to lists of their own: no
\* statement assigns to, appends to, removes from or sorts an argument.
ReadOnly(list) == list

\* "\n\n".join(page.content for page in corpus.pages)
FullContent(c) == Join([p \in 1..Len(c.pages) |-> c.pages[p].content], <<NL, NL>>)

analyze(c) ==
  LET classified == classify_tool_type(c)
      examples   == extract_examples(c)
  IN  [tool_type            |-> classified.tool_type,
       tool_type_confidence |-> classified.confidence,
       tool_type_reasoning  |-> classified.reasoning,
       workflows            |-> extract_workflows(c),
       examples             |-> ReadOnly(examples),
       patterns             |-> identify_patterns(examples),
       pitfalls             |-> extract_pitfalls(c),
       gaps                 |-> analyze_gaps(c),
       metadata             |-> [source               |-> c.source,
                                 pages_analyzed       |-> Len(c.pages),
                                 total_content_length |-> Len(FullContent(c))]]

----------------------------------------------------------------------------
(* Regular expressions of TemplateSynthesizer.  A pattern is modelled by   *)
(* the position where its match that starts at i ends (0 when it does not  *)
(* match at i); re.sub and re.findall scan from the left and resume after  *)
(* each match.                                                             *)

AlnumChars == AlphaChars \cup DigitChars

QuoteChars == {"'", "\""}

\* the length of the longest run of characters of set that starts at s[i]
RunIn(s, i, set) ==
  LET stops == {k \in i..Len(s) : s[k] \notin set}
  IN  IF i > Len(s) THEN 0
      ELSE IF stops = {} THEN Len(s) + 1 - i
      ELSE (CHOOSE k \in stops : \A m \in stops : k <= m) - i

\* the length of the longest run of characters outside set that starts at s[i]
RunNotIn(s, i, set) ==
  LET stops == {k \in i..Len(s) : s[k] \in set}
  IN  IF i > Len(s) THEN 0
      ELSE IF stops = {} THEN Len(s) + 1 - i
      ELSE (CHOOSE k \in stops : \A m \in stops : k <= m) - i

IsWordAt(s, k) == k >= 1 /\ k <= Len(s) /\ s[k] \in WordChars

\* \b between s[i - 1] and s[i]
Boundary(s, i) == IsWordAt(s, i - 1) # IsWordAt(s, i)

MaxOf(set) == CHOOSE a \in set : \A b \in set : a >= b

\* PLACEHOLDER_PATTERNS['url']: https?://[^\s<>"']+
UrlEnd(s, i) ==
  LET q == IF StartsAt(s, <<"h","t","t","p","s",":","/","/">>, i) THEN i + 8
           ELSE IF StartsAt(s, <<"h","t","t","p",":","/","/">>, i) THEN i + 7
           ELSE 0
      n == RunNotIn(s, q, SpaceChars \cup {"<", ">", "\"", "'"})
  IN  IF q = 0 \/ n = 0 THEN 0 ELSE q + n - 1

\* PLACEHOLDER_PATTERNS['email']:
\*   \b[A-Za-z0-9._%+-]+@[A-Za-z0-9.-]+\.[A-Z|a-z]{2,}\b
\* The domain and the top-level part are greedy: the longest domain is tried
\* first, and for it the longest top-level part that ends at a word boundary.
EmailEnd(s, i) ==
  LET n    == RunIn(s, i, AlnumChars \cup {".", "_", "%", "+", "-"})
      at   == i + n
      m    == RunIn(s, at + 1, AlnumChars \cup {".", "-"})
      tlds(d) == {t \in 2..RunIn(s, at + d + 2, AlphaChars \cup {"|"}) :
                    Boundary(s, at + d + 2 + t)}
      doms == {d \in 1..m : at + d + 1 <= Len(s) /\ s[at + d + 1] = "." /\ tlds(d) # {}}
  IN  IF ~Boundary(s, i) \/ n = 0 \/ at > Len(s) THEN 0
      ELSE IF s[at] # "@" \/ doms = {} THEN 0
      ELSE at + MaxOf(doms) + 1 + MaxOf(tlds(MaxOf(doms)))

\* the API key pattern of _generalize_code: \b[A-Za-z0-9]{32,}\b
ApiKeyEnd(s, i) ==
  LET n == RunIn(s, i, AlnumChars)
  IN  IF Boundary(s, i) /\ n >= 32 /\ Boundary(s, i + n) THEN i + n - 1 ELSE 0

SegmentChars == WordChars \cup {".", "-"}

RECURSIVE SlashSegments(_, _)
\* the greedy repetition (/[\w.-]+)* from position i: how many segments it
\* takes and where the last one ends
SlashSegments(s, i) ==
  LET r == RunIn(s, i + 1, SegmentChars)
  IN  IF i <= Len(s) /\ s[i] = "/" /\ r >= 1
        THEN LET rest == SlashSegments(s, i + 1 + r)
             IN  [n |-> rest.n + 1, end |-> IF rest.n = 0 THEN i + r ELSE rest.end]
        ELSE [n |-> 0, end |-> 0]

\* the shell path pattern of _generalize_code: (/[\w.-]+){2,}
ShellPathEnd(s, i) ==
  LET segs == SlashSegments(s, i)
  IN  IF segs.n >= 2 THEN segs.end ELSE 0

\* the Python call pattern of _generalize_code: ([\w.]+\(['"])([^'"]+)(['"])
PyCallEnd(s, i) ==
  LET r == RunIn(s, i, WordChars \cup {"."})
      g == RunNotIn(s, i + r + 2, QuoteChars)
  IN  IF /\ r >= 1
         /\ i + r + 1 <= Len(s)
         /\ s[i + r] = "("
         /\ s[i + r + 1] \in QuoteChars
         /\ g >= 1
         /\ i + r + 2 + g <= Len(s)
        THEN i + r + 2 + g
        ELSE 0

\* \1${ARG}\3 for the match of the Python call pattern at i
PyCallReplacement(s, i) ==
  LET r == RunIn(s, i, WordChars \cup {"."})
  IN  SubSeq(s, i, i + r + 1) \o <<"$","{","A","R","G","}">> \o <<s[PyCallEnd(s, i)]>>

JsKeywords == << <<"c","o","n","s","t">>, <<"l","e","t">>, <<"v","a","r">> >>

\* the keyword (const|let|var) that starts at i, <<>> when there is none
JsKeywordAt(s, i) ==
  LET hits == {k \in 1..Len(JsKeywords) : StartsAt(s, JsKeywords[k], i)}
  IN  IF hits = {} THEN <<>> ELSE JsKeywords[CHOOSE k \in hits : TRUE]

\* the JS pattern of _generalize_code:
\*   (const|let|var)\s+\w+\s*=\s*['"]([^'"]+)['"]
JsAssignEnd(s, i) ==
  LET kw  == JsKeywordAt(s, i)
      a   == i + Len(kw)
      ws1 == RunIn(s, a, SpaceChars)
      w   == RunIn(s, a + ws1, WordChars)
      b   == a + ws1 + w
      ws2 == RunIn(s, b, SpaceChars)
      eq  == b + ws2
      ws3 == RunIn(s, eq + 1, SpaceChars)
      q   == eq + 1 + ws3
      g   == RunNotIn(s, q + 1, QuoteChars)
  IN  IF /\ kw # <<>>
         /\ ws1 >= 1
         /\ w >= 1
         /\ q <= Len(s)
         /\ s[eq] = "="
         /\ s[q] \in QuoteChars
         /\ g >= 1
         /\ q + 1 + g <= Len(s)
        THEN q + 1 + g
        ELSE 0

\* the placeholder pattern \$\{(\w+)\}
PlaceholderEnd(s, i) ==
  LET r == RunIn(s, i + 2, WordChars)
  IN  IF StartsAt(s, <<"$", "{">>, i) /\ r >= 1 /\ StartsAt(s, <<"}">>, i + 2 + r)
        THEN i + 2 + r
        ELSE 0

RECURSIVE RewriteFrom(_, _, _, _)
\* re.sub from position i: ends[k] is where the match that starts at k ends
\* (0: none) and repl[k] replaces it
RewriteFrom(s, ends, repl, i) ==
  LET at == {k \in i..Len(s) : ends[k] >= k}
  IN  IF at = {} THEN SubSeq(s, i, Len(s))
      ELSE SubSeq(s, i, MinOf(at) - 1) \o repl[MinOf(at)]
             \o RewriteFrom(s, ends, repl, ends[MinOf(at)] + 1)

RECURSIVE MatchStarts(_, _, _)
\* the start positions of the successive matches re.findall visits from i
MatchStarts(ends, i, n) ==
  LET at == {k \in i..n : ends[k] >= k}
  IN  IF at = {} THEN <<>>
      ELSE <<MinOf(at)>> \o MatchStarts(ends, ends[MinOf(at)] + 1, n)

SubUrl(s) ==
  RewriteFrom(s, [i \in 1..Len(s) |-> UrlEnd(s, i)],
              [i \in 1..Len(s) |-> <<"$","{","U","R","L","}">>], 1)

SubEmail(s) ==
  RewriteFrom(s, [i \in 1..Len(s) |-> EmailEnd(s, i)],
              [i \in 1..Len(s) |-> <<"$","{","E","M","A","I","L","}">>], 1)

SubApiKey(s) ==
  RewriteFrom(s, [i \in 1..Len(s) |-> ApiKeyEnd(s, i)],
              [i \in 1..Len(s) |-> <<"$","{","A","P","I","_","K","E","Y","}">>], 1)

SubShellPath(s) ==
  RewriteFrom(s, [i \in 1..Len(s) |-> ShellPathEnd(s, i)],
              [i \in 1..Len(s) |-> <<"$","{","F","I","L","E","_","P","A","T","H","}">>], 1)

SubPyCall(s) ==
  RewriteFrom(s, [i \in 1..Len(s) |-> PyCallEnd(s, i)],
              [i \in 1..Len(s) |-> PyCallReplacement(s, i)], 1)

SubJsAssign(s) ==
  RewriteFrom(s, [i \in 1..Len(s) |-> JsAssignEnd(s, i)],
              [i \in 1..Len(s) |->
                 JsKeywordAt(s, i) \o <<" ","V","A","R","I","A","B","L","E"," ","=",
                                        " ","'","$","{","V","A","L","U","E","}","'">>], 1)

\* re.findall(r'\$\{(\w+)\}', s): the names, in order, repeated as they occur
FindPlaceholders(s) ==
  LET starts == MatchStarts([i \in 1..Len(s) |-> PlaceholderEnd(s, i)], 1, Len(s))
  IN  [k \in 1..Len(starts) |-> SubSeq(s, starts[k] + 2, PlaceholderEnd(s, starts[k]) - 1)]

\* re.findall(PLACEHOLDER_PATTERNS['url'], s)
FindUrls(s) ==
  LET starts == MatchStarts([i \in 1..Len(s) |-> UrlEnd(s, i)], 1, Len(s))
  IN  [k \in 1..Len(starts) |-> SubSeq(s, starts[k], UrlEnd(s, starts[k]))]

----------------------------------------------------------------------------
(* TemplateSynthesizer._generalize_code                                    *)

BASH == <<"b","a","s","h">>
PYTHON == <<"p","y","t","h","o","n">>
JAVASCRIPT == <<"j","a","v","a","s","c","r","i","p","t">>
TYPESCRIPT == <<"t","y","p","e","s","c","r","i","p","t">>

ShellLanguages == {BASH, <<"s","h","e","l","l">>, <<"s","h">>}
PythonLanguages == {PYTHON, <<"p","y">>}
JsLanguages == {JAVASCRIPT, <<"j","s">>, TYPESCRIPT, <<"t","s">>}

_generalize_code(code, language) ==
  LET generalized == SubApiKey(SubEmail(SubUrl(code)))
  IN  IF language \in ShellLanguages THEN SubShellPath(generalized)
      ELSE IF language \in PythonLanguages THEN SubPyCall(generalized)
      ELSE IF language \in JsLanguages THEN SubJsAssign(generalized)
      ELSE generalized

----------------------------------------------------------------------------
(* TemplateSynthesizer: comments, usage documentation, templates           *)

TYPE_BASIC == <<"b","a","s","i","c">>
TYPE_ADVANCED == <<"a","d","v","a","n","c","e","d">>

\* the languages comment_map gives '//'; every other language gets '#'
SlashCommentLanguages ==
  {JAVASCRIPT, <<"j","s">>, TYPESCRIPT, <<"t","s">>, <<"j","a","v","a">>,
   <<"g","o">>, <<"r","u","s","t">>, <<"c">>, <<"c","p","p">>}

_get_comment_syntax(language) ==
  IF Lower(language) \in SlashCommentLanguages THEN <<"/", "/">> ELSE <<"#">>

\* A dict is a record; dict.get(key, default) reads a field that may be absent.
_create_header_comment(ctx, comment_syntax) ==
  <<comment_syntax \o <<" ","T","e","m","p","l","a","t","e",":"," ">>
      \o (IF "title" \in DOMAIN ctx THEN ctx.title
          ELSE <<"G","e","n","e","r","a","t","e","d"," ","T","e","m","p","l","a","t","e">>)>>
    \o (IF "context" \in DOMAIN ctx
          THEN <<comment_syntax \o <<" ">> \o ctx.context>> ELSE <<>>)
    \o (IF "description" \in DOMAIN ctx
          THEN <<comment_syntax \o <<" ">> \o ctx.description>> ELSE <<>>)
    \o <<comment_syntax>>

\* the lines one template line becomes: a comment that names its placeholders,
\* when it has any, then the line itself
CommentedLine(line, comment_syntax) ==
  LET placeholders == FindPlaceholders(line)
  IN  IF Contains(line, <<"$", "{">>) /\ placeholders # <<>>
        THEN <<comment_syntax \o <<" ">>
                 \o Join(placeholders, <<",", " ">>)
                 \o <<":"," ","R","e","p","l","a","c","e"," ","w","i","t","h"," ",
                      "y","o","u","r"," ","v","a","l","u","e">>,
               line>>
        ELSE <<line>>

add_inline_comments(template_content, ctx, language) ==
  LET comment_syntax == _get_comment_syntax(language)
      lines          == Split(template_content, NL)
  IN  IF comment_syntax = <<>> THEN template_content
      ELSE Join(_create_header_comment(ctx, comment_syntax)
                  \o Concat([k \in 1..Len(lines) |-> CommentedLine(lines[k], comment_syntax)]),
                <<NL>>)

\* the code points of the \w characters, in increasing order
WordCharOrder ==
  <<"0","1","2","3","4","5","6","7","8","9">> \o UpperChars \o <<"_">> \o LowerChars

CodeOf(c) == CHOOSE i \in 1..Len(WordCharOrder) : WordCharOrder[i] = c

\* a < b for two strings of \w characters
StrLess(a, b) ==
  \E k \in 1..(Min(Len(a), Len(b)) + 1) :
    /\ \A j \in 1..(k - 1) : a[j] = b[j]
    /\ \/ k > Len(a) /\ k <= Len(b)
       \/ k <= Len(a) /\ k <= Len(b) /\ CodeOf(a[k]) < CodeOf(b[k])

\* sorted(names) for a list of distinct strings of \w characters
SortedNames(names) ==
  [k \in 1..Len(names) |->
     CHOOSE n \in Range(names) :
       Cardinality({m \in Range(names) : StrLess(m, n)}) = k - 1]

generate_usage_example(template, source_examples) ==
  LET first_ex == source_examples[1]
      default(ph) == IF ph \in DOMAIN template.defaults THEN template.defaults[ph]
                     ELSE <<"N","o"," ","d","e","f","a","u","l","t">>
      names == SortedNames(template.placeholders)
  IN  Join(
        << <<"#","#"," ","U","s","a","g","e",":"," ">> \o template.name,
           <<>>,
           <<"*","*","T","y","p","e",":","*","*"," ">> \o template.type,
           <<"*","*","L","a","n","g","u","a","g","e",":","*","*"," ">> \o template.language,
           <<>> >>
        \o (IF source_examples # <<>> /\ "context" \in DOMAIN first_ex
              THEN << <<"*","*","D","e","s","c","r","i","p","t","i","o","n",":","*","*"," ">>
                        \o first_ex.context,
                      <<>> >>
              ELSE <<>>)
        \o (IF template.placeholders # <<>>
              THEN << <<"*","*","P","l","a","c","e","h","o","l","d","e","r","s",":","*","*">> >>
                     \o [k \in 1..Len(names) |->
                           <<"-"," ",BQ,"$","{">> \o names[k] \o <<"}",BQ,":"," ">>
                             \o default(names[k])]
                     \o << <<>> >>
              ELSE <<>>)
        \o << <<"*","*","T","e","m","p","l","a","t","e",":","*","*">>,
              Fence \o template.language,
              template.content,
              Fence,
              <<>> >>
        \o (IF source_examples # <<>> /\ first_ex.code # <<>>
              THEN << <<"*","*","E","x","a","m","p","l","e"," ","f","r","o","m"," ","d","o",
                        "c","u","m","e","n","t","a","t","i","o","n",":","*","*">>,
                      Fence \o template.language,
                      first_ex.code,
                      Fence >>
              ELSE <<>>),
        <<NL>>)

\* list.index(x): the 0-based position of the first element equal to x
IndexOf(q, x) == (CHOOSE i \in 1..Len(q) : q[i] = x /\ \A j \in 1..(i - 1) : q[j] # x) - 1

\* _group_by_language: the keys of the dict, in insertion order
GroupLanguages(examples) == Distinct([i \in 1..Len(examples) |-> examples[i].language])

\* _group_by_language: the examples of one key
GroupOf(examples, language) == SelectSeq(examples, LAMBDA e : e.language = language)

\* the key of the min of _create_basic_template is less for a than for b
SimplerThan(a, b) ==
  \/ a.example_type = "basic" /\ b.example_type # "basic"
  \/ /\ (a.example_type = "basic") = (b.example_type = "basic")
     /\ Len(a.code) < Len(b.code)

\* min(examples, key=...): the first example no other is simpler than
Simplest(examples) ==
  examples[CHOOSE i \in 1..Len(examples) :
             /\ \A j \in 1..Len(examples) : ~SimplerThan(examples[j], examples[i])
             /\ \A j \in 1..(i - 1) : SimplerThan(examples[i], examples[j])]

\* _create_basic_template: <<>> for None, else <<template>>; now is the value
\* datetime.now().isoformat() gives
_create_basic_template(examples, language, tool_type, now) ==
  IF examples = <<>> THEN <<>>
  ELSE
    LET simplest == Simplest(examples)
        template ==
          [name            |-> tool_type \o <<"_","b","a","s","i","c">>,
           type            |-> TYPE_BASIC,
           language        |-> language,
           content         |-> add_inline_comments(_generalize_code(simplest.code, language),
                                                   simplest, language),
           placeholders    |-> <<>>,
           defaults        |-> <<>>,
           usage_example   |-> <<>>,
           source_examples |-> <<IndexOf(examples, simplest)>>,
           metadata        |-> [source_title |-> simplest.title, created_at |-> now]]
    IN  IF simplest.code = <<>> THEN <<>>
        ELSE <<[template EXCEPT
                  !.usage_example = generate_usage_example(template, <<simplest>>)]>>

RECURSIVE CollapseNonWord(_, _)
\* re.sub(r'\W+', '_', s), from position i
CollapseNonWord(s, i) ==
  LET w == RunIn(s, i, WordChars)
  IN  IF i > Len(s) THEN <<>>
      ELSE IF w > 0 THEN SubSeq(s, i, i + w - 1) \o CollapseNonWord(s, i + w)
      ELSE <<"_">> \o CollapseNonWord(s, i + RunNotIn(s, i, WordChars))

RECURSIVE ReplaceFrom(_, _, _, _)
\* s.replace(old, new) from position i, for a non-empty old
ReplaceFrom(s, old, new, i) ==
  LET at == {k \in i..(Len(s) - Len(old) + 1) : StartsAt(s, old, k)}
  IN  IF at = {} THEN SubSeq(s, i, Len(s))
      ELSE SubSeq(s, i, MinOf(at) - 1) \o new
             \o ReplaceFrom(s, old, new, MinOf(at) + Len(old))

\* s.replace(old, new); an empty old puts new around every character
Replace(s, old, new) ==
  IF old = <<>>
    THEN new \o Concat([i \in 1..Len(s) |-> <<s[i]>> \o new])
    ELSE ReplaceFrom(s, old, new, 1)

RECURSIVE _add_placeholders(_, _, _)
_add_placeholders(content, variable_parts, language) ==
  IF variable_parts = <<>> THEN content
  ELSE _add_placeholders(
         Replace(content, Head(variable_parts),
                 <<"$", "{">> \o Upper(CollapseNonWord(Head(variable_parts), 1)) \o <<"}">>),
         Tail(variable_parts), language)

\* _synthesize_from_pattern: <<>> for None, else <<template>>
_synthesize_from_pattern(pattern, examples, language, tool_type, now) ==
  IF pattern.common_structure = <<>> THEN <<>>
  ELSE <<[name            |-> tool_type \o <<"_">> \o pattern.name,
          type            |-> TYPE_ADVANCED,
          language        |-> language,
          content         |-> add_inline_comments(
                                _add_placeholders(pattern.common_structure,
                                                  pattern.variable_parts, language),
                                [context |-> pattern.description], language),
          placeholders    |-> <<>>,
          defaults        |-> <<>>,
          usage_example   |-> <<>>,
          source_examples |-> [k \in 1..Len(examples) |-> IndexOf(examples, examples[k])],
          metadata        |-> [pattern_name        |-> pattern.name,
                               pattern_description |-> pattern.description,
                               created_at          |-> now]]>>

\* pattern_examples: examples[idx] for the ids of the pattern below len(examples)
PatternExamples(examples, pattern) ==
  LET ids == SelectSeq(pattern.example_ids, LAMBDA idx : idx < Len(examples))
  IN  [k \in 1..Len(ids) |-> examples[ids[k] + 1]]

\* the templates one pattern adds for a language group: none or one
AdvancedOfPattern(examples, pattern, language, tool_type, now) ==
  IF PatternExamples(examples, pattern) = <<>> THEN <<>>
  ELSE _synthesize_from_pattern(pattern, PatternExamples(examples, pattern),
                                language, tool_type, now)

_create_advanced_templates(examples, patterns, language, tool_type, now) ==
  Concat([k \in 1..Len(patterns) |->
            AdvancedOfPattern(examples, patterns[k], language, tool_type, now)])

\* the templates of one language group: the basic one, then the advanced ones
TemplatesOfLanguage(examples, patterns, language, tool_type, now) ==
  _create_basic_template(GroupOf(examples, language), language, tool_type, now)
    \o (IF patterns # <<>>
          THEN _create_advanced_templates(GroupOf(examples, language), patterns,
                                          language, tool_type, now)
          ELSE <<>>)

synthesize_templates(examples, patterns, tool_type, now) ==
  LET languages == GroupLanguages(examples)
  IN  Concat([l \in 1..Len(languages) |->
                TemplatesOfLanguage(examples, patterns, languages[l], tool_type, now)])

----------------------------------------------------------------------------
(* TemplateSynthesizer.create_variable_placeholders, add_default_values    *)

\* the lists list(set(names)) can give: the iteration order of a set of str
\* is not fixed by its elements (str hashes are salted per process)
Orderings(set) == {q \in [1..Cardinality(set) -> set] : Range(q) = set}

\* The templates the call can leave: the placeholders are the distinct names
\* of the ${NAME} tokens of the content, in any order.
create_variable_placeholders(template) ==
  {[template EXCEPT !.placeholders = order] :
     order \in Orderings(Range(FindPlaceholders(template.content)))}

RECURSIVE DirGroups(_, _)
\* the greedy repetition ([\w.-]+/)* from position i: how many groups it
\* takes and the position after the last one
DirGroups(s, i) ==
  LET r == RunIn(s, i, SegmentChars)
  IN  IF r >= 1 /\ i + r <= Len(s) /\ s[i + r] = "/"
        THEN LET rest == DirGroups(s, i + r + 1)
             IN  [n |-> rest.n + 1, next |-> rest.next]
        ELSE [n |-> 0, next |-> i]

\* PLACEHOLDER_PATTERNS['file_path']: (?:/[\w.-]+)+|(?:[\w.-]+/)+[\w.-]+
\* In the second alternative the last group is given back when no name
\* follows the last slash.
FilePathEnd(s, i) ==
  LET segs   == SlashSegments(s, i)
      groups == DirGroups(s, i)
      last   == RunIn(s, groups.next, SegmentChars)
  IN  IF segs.n >= 1 THEN segs.end
      ELSE IF groups.n >= 1 /\ last >= 1 THEN groups.next + last - 1
      ELSE IF groups.n >= 2 THEN groups.next - 2
      ELSE 0

\* re.findall(PLACEHOLDER_PATTERNS['file_path'], s)
FindPaths(s) ==
  LET starts == MatchStarts([i \in 1..Len(s) |-> FilePathEnd(s, i)], 1, Len(s))
  IN  [k \in 1..Len(starts) |-> SubSeq(s, starts[k], FilePathEnd(s, starts[k]))]

\* what the loops of add_default_values find for one placeholder: the values
\* found in the examples, in the order of the examples (the first is kept)
DefaultCandidates(placeholder, examples) ==
  IF Contains(placeholder, <<"U","R","L">>)
    THEN Concat([e \in 1..Len(examples) |-> FindUrls(examples[e].code)])
  ELSE IF Contains(placeholder, <<"F","I","L","E">>)
            \/ Contains(placeholder, <<"P","A","T","H">>)
    THEN Concat([e \in 1..Len(examples) |-> FindPaths(examples[e].code)])
  ELSE <<>>

\* template.defaults is a dict: a function from the placeholders that got a
\* default to the default
add_default_values(template, examples) ==
  [template EXCEPT !.defaults =
     [ph \in {x \in Range(template.placeholders) : DefaultCandidates(x, examples) # <<>>}
        |-> DefaultCandidates(ph, examples)[1]]]

----------------------------------------------------------------------------
(* TemplateSynthesizer.validate_template_syntax.                           *)

\* the texts validate_template_syntax reports
ValidationMessages ==
  [mismatched |->
      <<"M","i","s","m","a","t","c","h","e","d"," ","p","l","a","c","e","h",
        "o","l","d","e","r","s",":"," ">>,
   open |->
      <<" ","o","p","e","n",","," ">>,
   close |->
      <<" ","c","l","o","s","e">>,
   single |->
      <<"U","n","m","a","t","c","h","e","d"," ","s","i","n","g","l","e"," ",
        "q","u","o","t","e","s"," ","d","e","t","e","c","t","e","d">>,
   double |->
      <<"U","n","m","a","t","c","h","e","d"," ","d","o","u","b","l","e"," ",
        "q","u","o","t","e","s"," ","d","e","t","e","c","t","e","d">>,
   mixed |->
      <<"M","i","x","e","d"," ","t","a","b","s"," ","a","n","d"," ","s","p",
        "a","c","e","s"," ","i","n"," ","i","n","d","e","n","t","a","t","i",
        "o","n">>,
   bash |->
      <<"U","n","m","a","t","c","h","e","d"," ","d","o","u","b","l","e"," ",
        "q","u","o","t","e","s"," ","i","n"," ","b","a","s","h"," ","s","c",
        "r","i","p","t">>,
   none |->
      <<"N","o"," ","p","l","a","c","e","h","o","l","d","e","r","s"," ","f",
        "o","u","n","d"," ","-"," ","c","o","n","s","i","d","e","r"," ","i",
        "f"," ","t","e","m","p","l","a","t","e"," ","n","e","e","d","s"," ",
        "v","a","r","i","a","b","l","e"," ","p","a","r","t","s">>,
   comments |->
      <<"C","o","n","s","i","d","e","r"," ","a","d","d","i","n","g"," ","i",
        "n","l","i","n","e"," ","c","o","m","m","e","n","t","s"," ","t","o",
        " ","e","x","p","l","a","i","n"," ","u","s","a","g","e">>]

\* the number of lines of content that start with prefix
LinesStarting(content, prefix) ==
  LET lines == Split(content, NL)
  IN  Cardinality({i \in 1..Len(lines) : StartsAt(lines[i], prefix, 1)})

\* the three lists validate_template_syntax fills: errors only for unequal
\* counts of '${' and '}', warnings by language, suggestions
ValidationFindings(template) ==
  LET content            == template.content
      m                  == ValidationMessages
      open_placeholders  == Count(content, <<"$","{">>)
      close_placeholders == Count(content, <<"}">>)
      single_quotes      == Count(content, <<"'">>)
      double_quotes      == Count(content, <<"\"">>)
  IN  [errors |->
         IF open_placeholders # close_placeholders
           THEN <<m.mismatched \o Str(open_placeholders) \o m.open
                    \o Str(close_placeholders) \o m.close>>
           ELSE <<>>,
       warnings |->
         IF template.language \in PythonLanguages
           THEN (IF single_quotes % 2 # 0 THEN <<m.single>> ELSE <<>>)
                  \o (IF double_quotes % 2 # 0 THEN <<m.double>> ELSE <<>>)
                  \o (IF /\ LinesStarting(content, <<"\t">>) > 0
                         /\ LinesStarting(content, <<" "," "," "," ">>) > 0
                        THEN <<m.mixed>> ELSE <<>>)
         ELSE IF template.language \in ShellLanguages
           THEN (IF double_quotes % 2 # 0 THEN <<m.bash>> ELSE <<>>)
         ELSE <<>>,
       suggestions |->
         (IF template.placeholders = <<>> THEN <<m.none>> ELSE <<>>)
           \o (IF ~Contains(content, _get_comment_syntax(template.language))
                 THEN <<m.comments>> ELSE <<>>)]

\* is_valid of a result that also counts warnings and suggestions as failures
StrictValidation(template) ==
  LET found == ValidationFindings(template)
  IN  [is_valid    |-> found.errors = <<>> /\ found.warnings = <<>>
                         /\ found.suggestions = <<>>,
       errors      |-> found.errors,
       warnings    |-> found.warnings,
       suggestions |-> found.suggestions]

\* ValidationResult(is_valid, errors, warnings, suggestions), is_valid being
\* len(errors) == 0
validate_template_syntax(template) ==
  LET found == ValidationFindings(template)
  IN  [is_valid    |-> found.errors = <<>>,
       errors      |-> found.errors,
       warnings    |-> found.warnings,
       suggestions |-> found.suggestions]

----------------------------------------------------------------------------
(* TemplateSynthesizer.save_templates and the template phase of            *)
(* SkillCreator.  The output directory is a function from file names to    *)
(* the text written; the JSON metadata document is kept as the value that  *)
(* json.dump serializes (<<>> while the document was never written).       *)

\* path.write_text(text): the file is created or overwritten
WriteFile(files, name, text) ==
  [n \in DOMAIN files \cup {name} |-> IF n = name THEN text ELSE files[n]]

\* ext_map.get(template.language.lower(), '.txt') of save_templates
SaveExtension(language) ==
  LET l == Lower(language)
  IN  IF l \in PythonLanguages THEN <<".","p","y">>
      ELSE IF l \in ShellLanguages THEN <<".","s","h">>
      ELSE IF l \in {JAVASCRIPT, <<"j","s">>} THEN <<".","j","s">>
      ELSE IF l \in {TYPESCRIPT, <<"t","s">>} THEN <<".","t","s">>
      ELSE IF l = <<"y","a","m","l">> THEN <<".","y","a","m","l">>
      ELSE IF l = <<"j","s","o","n">> THEN <<".","j","s","o","n">>
      ELSE <<".","t","x","t">>

\* the extension dict of run_phase_3_templates, with the dot of the f-string
PhaseExtension(language) ==
  IF language = BASH THEN <<".","s","h">>
  ELSE IF language = PYTHON THEN <<".","p","y">>
  ELSE IF language = JAVASCRIPT THEN <<".","j","s">>
  ELSE IF language = TYPESCRIPT THEN <<".","t","s">>
  ELSE <<".","t","x","t">>

RECURSIVE WriteTemplates(_, _, _, _)
\* the loop "for template in templates" of save_templates, from template k
WriteTemplates(files, tpls, k, usePhaseExtension) ==
  IF k > Len(tpls) THEN files
  ELSE WriteTemplates(
         WriteFile(
           WriteFile(files,
                     tpls[k].name \o (IF usePhaseExtension
                                        THEN PhaseExtension(tpls[k].language)
                                        ELSE SaveExtension(tpls[k].language)),
                     tpls[k].content),
           tpls[k].name \o <<"_","U","S","A","G","E",".","m","d">>, tpls[k].usage_example),
         tpls, k + 1, usePhaseExtension)

\* one entry of the 'templates' list save_templates writes
MetadataEntry(t) ==
  [name            |-> t.name,
   type            |-> t.type,
   language        |-> t.language,
   placeholders    |-> t.placeholders,
   defaults        |-> t.defaults,
   source_examples |-> t.source_examples,
   metadata        |-> t.metadata]

save_templates(tpls, dir, now) ==
  [files    |-> WriteTemplates(dir.files, tpls, 1, FALSE),
   metadata |-> <<[templates       |-> [k \in 1..Len(tpls) |-> MetadataEntry(tpls[k])],
                   created_at      |-> now,
                   total_templates |-> Len(tpls)]>>]

\* the files and the metadata run_phase_3_templates writes: asdict(t) keeps
\* every field of the template, the type as its value
SavePhaseTemplates(tpls, dir, now) ==
  [files    |-> WriteTemplates(dir.files, tpls, 1, TRUE),
   metadata |-> <<[templates |-> tpls, generated_at |-> now]>>]

RECURSIVE PostProcessed(_, _)
\* The loop of main over the templates: create_variable_placeholders, then
\* add_default_values, for each.  The set of the lists it can leave.
PostProcessed(tpls, examples) ==
  IF tpls = <<>> THEN {<<>>}
  ELSE {<<add_default_values(t, examples)>> \o rest :
          t \in create_variable_placeholders(Head(tpls)),
          rest \in PostProcessed(Tail(tpls), examples)}

----------------------------------------------------------------------------
(* Inputs: the corpora the pipeline is run on.                             *)

\* the lines the one-page corpora are made of
\*   [1] a line that holds a workflow header keyword
\*   [2] a numbered step line
\*   [3] a line that is neither a header nor a step
LineKinds ==
  <<
    <<"#","#"," ","Q","u","i","c","k"," ","S","t","a","r","t">>,
    <<"1","."," ","I","n","s","t","a","l","l">>,
    <<"S","o","m","e"," ","t","e","x","t",".">>
  >>

\* page contents about workflows
\*   [1] a page that ends inside a workflow
\*   [2] a page that starts with a step line, then holds two workflows
\*   [3] a page whose only header is followed by no step
WorkflowDocs ==
  <<
    <<"#"," ","G","e","t","t","i","n","g"," ","S","t","a","r","t","e","d",
      "\n","1","."," ","I","n","s","t","a","l","l","\n","-"," ","C","o","n",
      "f","i","g","u","r","e">>,
    <<"2","."," ","V","e","r","i","f","y","\n","#","#"," ","T","u","t","o",
      "r","i","a","l","\n","-"," ","R","u","n"," ","i","t","\n","#"," ","H",
      "o","w"," ","t","o"," ","d","e","p","l","o","y","\n","3","."," ","S",
      "h","i","p">>,
    <<"#"," ","W","o","r","k","f","l","o","w","\n","S","o","m","e"," ","t",
      "e","x","t",".">>
  >>

\* page contents about documentation gaps
\*   [1] a page that holds every gap indicator phrase
\*   [2] a page that holds one indicator twice, and TODO
\*   [3] a page without any indicator phrase
GapDocs ==
  <<
    <<"S","e","e"," ","d","o","c","u","m","e","n","t","a","t","i","o","n",",",
      " ","r","e","f","e","r"," ","t","o"," ","i","t"," ","f","o","r"," ","m",
      "o","r","e"," ","d","e","t","a","i","l","s","."," ","A","d","v","a","n",
      "c","e","d"," ","u","s","a","g","e",":"," ","c","o","m","i","n","g"," ",
      "s","o","o","n",","," ","n","o","t"," ","d","o","c","u","m","e","n","t",
      "e","d"," ","(","T","B","D",")","."," ","T","O","D","O"," ","W","I",
      "P">>,
    <<"R","e","f","e","r"," ","t","o"," ","t","h","e"," ","g","u","i","d","e",
      ";"," ","i","t"," ","i","s"," ","r","e","q","u","i","r","e","d","."," ",
      "R","e","f","e","r"," ","t","o"," ","i","t"," ","t","w","i","c","e",".",
      " ","T","O","D","O">>,
    <<"N","o","t","h","i","n","g"," ","t","o"," ","s","e","e",".">>
  >>

\* page contents with fenced code blocks
\*   [1] one bash block under a heading
\*   [2] an untagged block and a python block
\*   [3] a warning line, then a bash block with a path and an address
\*   [4] prose without a code block
ExampleDocs ==
  <<
    <<"#"," ","F","e","t","c","h"," ","u","s","e","r","s","\n",BQ,BQ,BQ,"b",
      "a","s","h","\n","c","u","r","l"," ","h","t","t","p","s",":","/","/",
      "a","p","i",".","e","x","a","m","p","l","e",".","c","o","m","/","v","1",
      "/","u","s","e","r","s","\n",BQ,BQ,BQ>>,
    <<"L","i","s","t","i","n","g",":","\n",BQ,BQ,BQ,"\n","l","s"," ","-","l",
      "a","\n",BQ,BQ,BQ,"\n","#","#"," ","C","a","l","l","\n",BQ,BQ,BQ,"p",
      "y","t","h","o","n","\n","p","r","i","n","t","(","'","h","e","l","l",
      "o"," ","w","o","r","l","d","'",")","\n",BQ,BQ,BQ>>,
    <<"W","a","r","n","i","n","g",":"," ","o","p","e","r","a","t","i","o","n",
      " ","f","a","i","l","s"," ","w","i","t","h","o","u","t"," ","a"," ","c",
      "o","n","f","i","g"," ","f","i","l","e",".","\n",BQ,BQ,BQ,"b","a","s",
      "h","\n","s","c","p"," ","/","s","r","v","/","a","p","p","/","c","o",
      "n","f",".","y","m","l"," ","a","d","m","i","n","@","e","x","a","m","p",
      "l","e",".","c","o","m","\n",BQ,BQ,BQ,"\n","D","o","n","e",".">>,
    <<"N","o"," ","c","o","d","e"," ","h","e","r","e",".">>
  >>

\* page contents whose code blocks share lines
\*   [1] a python block that holds one line twice, and a second python block
\*   [2] a python block of eleven distinct lines longer than 10 characters
\*   [3] a python block that shares its first line with [2]
PatternDocs ==
  <<
    <<BQ,BQ,BQ,"p","y","t","h","o","n","\n","i","m","p","o","r","t"," ","r",
      "e","q","u","e","s","t","s"," ","a","s"," ","r","q","\n","i","m","p",
      "o","r","t"," ","r","e","q","u","e","s","t","s"," ","a","s"," ","r","q",
      "\n",BQ,BQ,BQ,"\n",BQ,BQ,BQ,"p","y","t","h","o","n","\n","v","a","l",
      "u","e"," ","="," ","1","\n",BQ,BQ,BQ>>,
    <<BQ,BQ,BQ,"p","y","t","h","o","n","\n","s","t","e","p","_","0","1"," ",
      "="," ","f","(","1",")","\n","s","t","e","p","_","0","2"," ","="," ",
      "f","(","2",")","\n","s","t","e","p","_","0","3"," ","="," ","f","(",
      "3",")","\n","s","t","e","p","_","0","4"," ","="," ","f","(","4",")",
      "\n","s","t","e","p","_","0","5"," ","="," ","f","(","5",")","\n","s",
      "t","e","p","_","0","6"," ","="," ","f","(","6",")","\n","s","t","e",
      "p","_","0","7"," ","="," ","f","(","7",")","\n","s","t","e","p","_",
      "0","8"," ","="," ","f","(","8",")","\n","s","t","e","p","_","0","9",
      " ","="," ","f","(","9",")","\n","s","t","e","p","_","1","0"," ","=",
      " ","f","(","0",")","\n","s","t","e","p","_","1","1"," ","="," ","f",
      "(","1",")","\n",BQ,BQ,BQ>>,
    <<BQ,BQ,BQ,"p","y","t","h","o","n","\n","s","t","e","p","_","1","1"," ",
      "="," ","f","(","1",")","\n","s","t","e","p","_","1"," ","="," ","f",
      "(",")","\n",BQ,BQ,BQ>>
  >>

\* page contents with tool type indicators
\*   [1] six API indicators, three times each
\*   [2] two CLI indicators and one library indicator
\*   [3] one library indicator and one API indicator
ClassifyDocs ==
  <<
    <<"a","p","i"," ","a","p","i"," ","a","p","i"," ","r","e","s","t"," ","r",
      "e","s","t"," ","r","e","s","t"," ","h","t","t","p"," ","h","t","t","p",
      " ","h","t","t","p"," ","j","s","o","n"," ","j","s","o","n"," ","j","s",
      "o","n"," ","g","e","t"," ","g","e","t"," ","g","e","t"," ","p","u","t",
      " ","p","u","t"," ","p","u","t">>,
    <<"c","o","m","m","a","n","d"," ","f","l","a","g"," ","i","m","p","o","r",
      "t">>,
    <<"i","m","p","o","r","t"," ","a","p","i">>
  >>

\* page contents about pitfalls
\*   [1] one line that holds two keywords
\*   [2] keyword lines of low, high and medium severity around a plain line
\*   [3] lines without a keyword
PitfallDocs ==
  <<
    <<"W","a","r","n","i","n","g",":"," ","o","p","e","r","a","t","i","o","n",
      " ","f","a","i","l","s"," ","w","i","t","h","o","u","t"," ","a"," ","c",
      "o","n","f","i","g"," ","f","i","l","e",".">>,
    <<"N","o","t","e",":"," ","t","h","i","s"," ","f","l","a","g"," ","i","s",
      " ","d","e","p","r","e","c","a","t","e","d","\n","P","l","a","i","n",
      " ","l","i","n","e"," ","h","e","r","e","\n","N","o","t","e",":"," ",
      "e","r","r","o","r",":"," ","b","r","e","a","k","i","n","g"," ","c","h",
      "a","n","g","e","\n","C","a","u","t","i","o","n",":"," ","s","l","o",
      "w">>,
    <<"N","o","t","h","i","n","g"," ","t","o"," ","s","e","e",".","\n","A",
      "l","l"," ","f","i","n","e",".">>
  >>

\* page contents with unusual code blocks
\*   [1] two bash blocks with different addresses, the longer first
\*   [2] an empty bash block, then a bash block
\*   [3] a python block that holds braces
\*   [4] a bash block with one double quote
EdgeDocs ==
  <<
    <<BQ,BQ,BQ,"b","a","s","h","\n","c","u","r","l"," ","-","s"," ","h","t",
      "t","p","s",":","/","/","e","x","a","m","p","l","e",".","o","r","g","/",
      "a","p","i","/","v","2","/","i","t","e","m","s","\n",BQ,BQ,BQ,"\n",BQ,
      BQ,BQ,"b","a","s","h","\n","c","u","r","l"," ","h","t","t","p","s",":",
      "/","/","x",".","i","o","\n",BQ,BQ,BQ>>,
    <<BQ,BQ,BQ,"b","a","s","h","\n","\n",BQ,BQ,BQ,"\n",BQ,BQ,BQ,"b","a","s",
      "h","\n","l","s"," ","-","l","a"," ","/","t","m","p","\n",BQ,BQ,BQ>>,
    <<BQ,BQ,BQ,"p","y","t","h","o","n","\n","o","p","t","s"," ","="," ","{",
      "'","r","e","t","r","i","e","s","'",":"," ","3","}","\n",BQ,BQ,BQ>>,
    <<BQ,BQ,BQ,"b","a","s","h","\n","e","c","h","o"," ","\"","o","k","\n",BQ,
      BQ,BQ>>
  >>

\* page contents with headings before a code block
\*   [1] two heading lines directly before a bash block
\*   [2] a heading line four lines before a bash block
TitleDocs ==
  <<
    <<"#"," ","S","e","t","u","p","\n","#","#"," ","R","u","n","\n",BQ,BQ,BQ,
      "b","a","s","h","\n","l","s","\n",BQ,BQ,BQ>>,
    <<"#","#"," ","I","n","s","t","a","l","l","\n","l","i","n","e"," ","a",
      "\n","l","i","n","e"," ","b","\n","l","i","n","e"," ","c","\n",BQ,BQ,BQ,
      "b","a","s","h","\n","l","s","\n",BQ,BQ,BQ>>
  >>

\* page contents with lines at the length limit of a pattern
\*   [1] two python blocks that share a line of 10, a line of 9 and a line of 11 characters
BoundaryDocs ==
  <<
    <<BQ,BQ,BQ,"p","y","t","h","o","n","\n","i","m","p","o","r","t"," ","a",
      "b","c","\n","i","m","p","o","r","t"," ","a","b","\n","i","m","p","o",
      "r","t"," ","a","b","c","d","\n",BQ,BQ,BQ,"\n",BQ,BQ,BQ,"p","y","t","h",
      "o","n","\n","i","m","p","o","r","t"," ","a","b","c","d","\n","i","m",
      "p","o","r","t"," ","a","b","\n","i","m","p","o","r","t"," ","a","b",
      "c","\n",BQ,BQ,BQ>>
  >>

\* the longest line sequence of a generated page
MaxLines == 3

\* the most pages of a corpus
MaxPages == 3

SeqsUpTo(set, n) == UNION {[1..k -> set] : k \in 0..n}

\* DocumentationCorpus(source, pages) of Page(url, title, content) records
MakeCorpus(contents) ==
  [source |-> "docs",
   pages  |-> [i \in 1..Len(contents) |->
                 [url     |-> <<"p">> \o Str(i),
                  title   |-> <<"d","o","c">>,
                  content |-> contents[i]]]]

PageFamilies ==
  {WorkflowDocs, GapDocs, ExampleDocs, PatternDocs, ClassifyDocs, PitfallDocs, EdgeDocs,
   TitleDocs, BoundaryDocs}

\* the corpora of one page made of up to MaxLines lines, and the corpora of
\* up to MaxPages pages of one family (the empty corpus is one of them)
Corpora ==
  {MakeCorpus(<<Join(lines, <<NL>>)>>) : lines \in SeqsUpTo(Range(LineKinds), MaxLines)}
    \cup UNION {{MakeCorpus(contents) : contents \in SeqsUpTo(Range(family), MaxPages)} :
                  family \in PageFamilies}

----------------------------------------------------------------------------
(* The state machine.  A run of the pipeline analyzes the corpus, then one *)
(* of the two drivers of the synthesizer turns the analysis into saved     *)
(* templates: main of template_synthesizer.py, or the template phase of    *)
(* SkillCreator.  The corpus and the output directory outlive a run, so    *)
(* the same pipeline can be run a second time.                             *)

\* the latest time the clock of the model shows
MaxClock == 1

\* SkillCreator before run is called: no configuration, no state, no state
\* file in the output directory
NoRunYet ==
  /\ config = <<>>
  /\ state = <<>>
  /\ state_file = <<>>
  /\ rpc = "idle"
  /\ phase = 1
  /\ executed = <<>>
  /\ loaded = <<>>
  /\ result = "none"
  /\ runs = 0

\* the output directory before anything is written
EmptyDir == [files |-> <<>>, metadata |-> <<>>]

Init ==
  /\ corpus \in Corpora
  /\ pc = "start"
  /\ analysis = <<>>
  /\ templates = <<>>
  /\ saved = EmptyDir
  /\ clock = 0
  /\ run = 1
  /\ driver = "none"
  /\ first = <<>>
  /\ validation = <<>>
  /\ NoRunYet

\* DocAnalyzer.analyze on the corpus
Analyze ==
  /\ pc = "start"
  /\ analysis' = analyze(corpus)
  /\ pc' = "analyzed"
  /\ UNCHANGED <<corpus, templates, saved, clock, run, driver, first, validation>>
  /\ UNCHANGED pipelineVars

\* the driver a run uses: the second run repeats the first
MayDrive(d) == IF run = 1 THEN TRUE ELSE first.driver = d

\* main of template_synthesizer.py, reading the time now, with or without
\* --validate: it returns early when there are no examples or no templates,
\* else it fills the placeholders and the defaults of every template,
\* validates each when asked to, and saves them
SynthesizerMain(now, validate) ==
  /\ pc = "analyzed"
  /\ MayDrive("main")
  /\ LET made == IF analysis.examples = <<>> THEN <<>>
                 ELSE synthesize_templates(analysis.examples, analysis.patterns,
                                           analysis.tool_type, now)
     IN  IF made = <<>>
           THEN /\ templates' = <<>>
                /\ validation' = <<>>
                /\ saved' = saved
           ELSE /\ templates' \in PostProcessed(made, analysis.examples)
                /\ validation' =
                     IF validate
                       THEN [k \in 1..Len(templates') |->
                               validate_template_syntax(templates'[k])]
                       ELSE <<>>
                /\ saved' = save_templates(templates', saved, now)
  /\ analysis' = [analysis EXCEPT !.examples = ReadOnly(@),
                                  !.patterns = ReadOnly(@)]
  /\ clock' = now
  /\ driver' = "main"
  /\ pc' = "done"
  /\ UNCHANGED <<corpus, run, first>>
  /\ UNCHANGED pipelineVars

\* SkillCreator.run_phase_3_templates, reading the time now: the templates
\* are synthesized from the saved analysis and written as they are
Phase3Templates(now) ==
  /\ pc = "analyzed"
  /\ MayDrive("phase3")
  /\ templates' = synthesize_templates(analysis.examples, analysis.patterns,
                                       analysis.tool_type, now)
  /\ saved' = SavePhaseTemplates(templates', saved, now)
  /\ validation' = <<>>
  /\ analysis' = [analysis EXCEPT !.examples = ReadOnly(@),
                                  !.patterns = ReadOnly(@)]
  /\ clock' = now
  /\ driver' = "phase3"
  /\ pc' = "done"
  /\ UNCHANGED <<corpus, run, first>>
  /\ UNCHANGED pipelineVars

\* the pipeline is started again on the unchanged corpus; what the first run
\* produced is kept for comparison
Rerun ==
  /\ pc = "done"
  /\ run = 1
  /\ first' = [analysis |-> analysis, templates |-> templates, driver |-> driver]
  /\ run' = 2
  /\ pc' = "start"
  /\ analysis' = <<>>
  /\ templates' = <<>>
  /\ driver' = "none"
  /\ validation' = <<>>
  /\ UNCHANGED <<corpus, saved, clock>>
  /\ UNCHANGED pipelineVars

Next ==
  \/ Analyze
  \/ \E now \in clock..MaxClock, validate \in BOOLEAN : SynthesizerMain(now, validate)
  \/ \E now \in clock..MaxClock : Phase3Templates(now)
  \/ Rerun

Spec == Init /\ [][Next]_vars

----------------------------------------------------------------------------
(* Properties of the analysis.                                             *)

Analyzed == pc \in {"analyzed", "done"}

\* C1: every Workflow in the list returned by extract_workflows has at least
\* one step in its steps list.
WorkflowsHaveSteps ==
  Analyzed =>
    \A w \in 1..Len(analysis.workflows) : Len(analysis.workflows[w].steps) >= 1

\* C2: for every synthesized template, those saved by the template phase of
\* SkillCreator included, the placeholders list holds exactly the ${NAME}
\* tokens of the template's content.
PlaceholdersMatchContent ==
  pc = "done" =>
    \A k \in 1..Len(templates) :
      Range(templates[k].placeholders) = Range(FindPlaceholders(templates[k].content))

\* C3: classify_tool_type returns a confidence in the closed interval [0,1]
\* and a reasoning list of at most 5 strings.
ConfidenceAndReasonsBounded ==
  Analyzed =>
    /\ analysis.tool_type_confidence.den > 0
    /\ 0 <= analysis.tool_type_confidence.num
    /\ analysis.tool_type_confidence.num <= analysis.tool_type_confidence.den
    /\ Len(analysis.tool_type_reasoning) <= 5

\* a classification whose reasoning list was cut to 5 and whose confidence is
\* strictly between 0 and 1
ReasonsWereCut ==
  /\ pc = "analyzed"
  /\ Len(analysis.tool_type_reasoning) = 5
  /\ Len(Concat([t \in 1..4 |->
                   IndicatorReasons(ClassifyContent(corpus), IndicatorTables[t])])) > 5
  /\ 0 < analysis.tool_type_confidence.num
  /\ analysis.tool_type_confidence.num < analysis.tool_type_confidence.den

\* C4: classify_tool_type returns UNKNOWN if and only if the four indicator
\* scores are all zero; the confidence is then exactly 0.0 and the reasoning
\* list holds exactly one string.
UnknownIffNoScore ==
  Analyzed =>
    /\ analysis.tool_type = UNKNOWN <=> \A t \in 1..4 : Scores(corpus)[t] = 0
    /\ analysis.tool_type = UNKNOWN =>
         /\ analysis.tool_type_confidence = [num |-> 0, den |-> 1]
         /\ Len(analysis.tool_type_reasoning) = 1

\* pages without any indicator were classified
UnknownReturned ==
  /\ pc = "analyzed"
  /\ Len(corpus.pages) >= 1
  /\ analysis.tool_type = UNKNOWN

\* C5: analyzing a corpus of zero pages returns UNKNOWN, confidence 0.0 and
\* empty workflows, examples, patterns, pitfalls and gaps lists, without
\* raising; so does a corpus whose pages hold nothing extractable.
NothingFromNothing ==
  (Analyzed /\ \A p \in 1..Len(corpus.pages) :
                 corpus.pages[p].content \in {<<>>, LineKinds[3]}) =>
    /\ analysis.tool_type = UNKNOWN
    /\ analysis.tool_type_confidence = [num |-> 0, den |-> 1]
    /\ analysis.workflows = <<>>
    /\ analysis.examples = <<>>
    /\ analysis.patterns = <<>>
    /\ analysis.pitfalls = <<>>
    /\ analysis.gaps = <<>>

\* the corpus of zero pages was analyzed
EmptyCorpusAnalyzed == pc = "analyzed" /\ Len(corpus.pages) = 0

\* C6: running the pipeline (analyze, synthesize_templates,
\* create_variable_placeholders, add_default_values) a second time on the
\* unchanged corpus yields the AnalysisContext and the Template records of the
\* first run.
RunsAgree ==
  (run = 2 /\ pc = "done" /\ driver = "main") =>
    /\ analysis = first.analysis
    /\ templates = first.templates

\* the fenced blocks of the corpus as <<page, block>> index pairs
BlockRefs ==
  UNION {{<<p, b>> : b \in 1..Len(CodeBlocks(corpus.pages[p].content))} :
           p \in 1..Len(corpus.pages)}

\* the blocks that come before block r: those of earlier pages, and the
\* earlier ones of its page
BlocksBefore(r) == {q \in BlockRefs : q[1] < r[1] \/ (q[1] = r[1] /\ q[2] < r[2])}

\* C7: extract_examples returns exactly one CodeExample per fenced code block,
\* in page order and then block order within the page; a page with zero
\* fenced blocks contributes zero examples.
OneExamplePerBlock ==
  Analyzed =>
    /\ Len(analysis.examples) = Cardinality(BlockRefs)
    /\ \A r \in BlockRefs :
         LET e     == analysis.examples[Cardinality(BlocksBefore(r)) + 1]
             block == CodeBlocks(corpus.pages[r[1]].content)[r[2]]
         IN  /\ e.source_url = corpus.pages[r[1]].url
             /\ e.code = Strip(block.code)
             /\ e.language = IF block.language = <<>> THEN UNKNOWN ELSE block.language

\* a page of two blocks, a page of none and a page of one, in that order
BlocksOfThreePages ==
  /\ pc = "analyzed"
  /\ Len(corpus.pages) = 3
  /\ Len(CodeBlocks(corpus.pages[1].content)) = 2
  /\ Len(CodeBlocks(corpus.pages[2].content)) = 0
  /\ Len(CodeBlocks(corpus.pages[3].content)) = 1
  /\ Len(analysis.examples) = 3

\* C8: identify_patterns returns at most 10 patterns, and the occurrences of
\* every returned pattern equal the length of its example_ids list.
PatternsBounded ==
  Analyzed =>
    /\ Len(analysis.patterns) <= 10
    /\ \A p \in 1..Len(analysis.patterns) :
         analysis.patterns[p].occurrences = Len(analysis.patterns[p].example_ids)

\* more than 10 lines were candidates and 10 patterns were returned
PatternsWereCut ==
  /\ pc = "analyzed"
  /\ Len(PatternsOfLanguage(analysis.examples, PYTHON)) > 10
  /\ Len(analysis.patterns) = 10

\* C9: the example_ids of every pattern returned by identify_patterns name at
\* least two different examples.
PatternsSpanTwoExamples ==
  Analyzed =>
    \A p \in 1..Len(analysis.patterns) :
      Cardinality(Range(analysis.patterns[p].example_ids)) >= 2

\* the indicator matches of the corpus as <<page, indicator>> index pairs
GapMatches ==
  {m \in (1..Len(corpus.pages)) \X (1..Len(GAP_INDICATORS)) :
     GapIndicatorFound(corpus.pages[m[1]].content, GAP_INDICATORS[m[2]])}

\* the matches found before match m: page order, then indicator-list order
MatchesBefore(m) == {q \in GapMatches : q[1] < m[1] \/ (q[1] = m[1] /\ q[2] < m[2])}

\* C10: analyze_gaps returns at most 20 Gap records, and they are the first 20
\* found in page order then indicator-list order.
FirstTwentyGaps ==
  Analyzed =>
    /\ Len(analysis.gaps) <= 20
    /\ Len(analysis.gaps) = Min(20, Cardinality(GapMatches))
    /\ \A m \in GapMatches :
         Cardinality(MatchesBefore(m)) < 20 =>
           analysis.gaps[Cardinality(MatchesBefore(m)) + 1]
             = NewGap(corpus.pages[m[1]].content, GAP_INDICATORS[m[2]])

\* more than 20 matches were found and 20 gaps were returned
GapsWereCut ==
  /\ pc = "analyzed"
  /\ Cardinality(GapMatches) > 20
  /\ Len(analysis.gaps) = 20

----------------------------------------------------------------------------
(* Properties of the pitfalls.                                             *)

\* the lines of page p
LinesOfPage(p) == Split(corpus.pages[p].content, NL)

\* the lines of the corpus that hold a pitfall keyword, as <<page, line>> pairs
KeywordLines ==
  UNION {{<<p, i>> : i \in {j \in 1..Len(LinesOfPage(p)) :
                              \E k \in 1..Len(PITFALL_KEYWORDS) :
                                Contains(Lower(LinesOfPage(p)[j]), PITFALL_KEYWORDS[k])}} :
           p \in 1..Len(corpus.pages)}

\* the keyword lines before line m, in page order then line order
KeywordLinesBefore(m) ==
  {q \in KeywordLines : q[1] < m[1] \/ (q[1] = m[1] /\ q[2] < m[2])}

\* C11: the severity of every Pitfall is 'high' if the matched line contains,
\* in any case, 'critical', 'breaking' or 'error'; otherwise 'low' if it
\* contains 'note' or 'tip'; otherwise 'medium'.  The line "Warning: operation
\* fails without a config file." yields exactly one Pitfall, of severity
\* 'medium'.
SeverityFollowsLine ==
  Analyzed =>
    /\ \A m \in KeywordLines :
         LET line == Lower(LinesOfPage(m[1])[m[2]])
             has(word) == Contains(line, word)
         IN  analysis.pitfalls[Cardinality(KeywordLinesBefore(m)) + 1].severity
               = IF \/ has(<<"c","r","i","t","i","c","a","l">>)
                    \/ has(<<"b","r","e","a","k","i","n","g">>)
                    \/ has(<<"e","r","r","o","r">>)
                   THEN "high"
                 ELSE IF has(<<"n","o","t","e">>) \/ has(<<"t","i","p">>)
                   THEN "low"
                 ELSE "medium"
    /\ (Len(corpus.pages) = 1 /\ corpus.pages[1].content = PitfallDocs[1]) =>
         /\ Len(analysis.pitfalls) = 1
         /\ analysis.pitfalls[1].severity = "medium"

\* pitfalls of the three severities were emitted for one corpus
AllSeverities ==
  /\ pc = "analyzed"
  /\ \A s \in {"high", "low", "medium"} :
       \E k \in 1..Len(analysis.pitfalls) : analysis.pitfalls[k].severity = s

\* C12: extract_pitfalls emits exactly one Pitfall for each line that holds at
\* least one pitfall keyword, however many keywords it holds, and none for any
\* other line.
OnePitfallPerLine ==
  Analyzed =>
    /\ Len(analysis.pitfalls) = Cardinality(KeywordLines)
    /\ \A m \in KeywordLines :
         LET pitfall == analysis.pitfalls[Cardinality(KeywordLinesBefore(m)) + 1]
             lines   == LinesOfPage(m[1])
         IN  /\ pitfall.source_url = corpus.pages[m[1]].url
             /\ pitfall.context
                  = Strip(Join(SubSeq(lines, m[2], Min(m[2] + 2, Len(lines))), <<NL>>))

\* a line that holds several keywords was turned into one pitfall
ManyKeywordsOnePitfall ==
  /\ pc = "analyzed"
  /\ \E m \in KeywordLines :
       Cardinality({k \in 1..Len(PITFALL_KEYWORDS) :
                      Contains(Lower(LinesOfPage(m[1])[m[2]]), PITFALL_KEYWORDS[k])}) >= 2
  /\ Len(corpus.pages) >= 2
  /\ Len(analysis.pitfalls) >= 3

----------------------------------------------------------------------------
(* Properties of the templates.                                            *)

\* the pipeline of main ended: the templates went through
\* create_variable_placeholders and add_default_values
MainDone == pc = "done" /\ driver = "main"

\* the example a basic template was made from: source_examples holds its
\* index in the examples of the template's language
SourceExample(t) ==
  SelectSeq(analysis.examples, LAMBDA e : e.language = t.language)[t.source_examples[1] + 1]

\* C13: the basic template generated from a bash example whose code holds a
\* literal URL contains ${URL} and none of the URLs of that code, and after
\* add_default_values the default of the URL placeholder is the URL of that
\* code.
UrlBecomesPlaceholder ==
  MainDone =>
    \A k \in 1..Len(templates) :
      LET t    == templates[k]
          urls == FindUrls(SourceExample(t).code)
      IN  (t.type = TYPE_BASIC /\ t.language = BASH /\ urls # <<>>) =>
            /\ Contains(t.content, <<"$","{","U","R","L","}">>)
            /\ \A u \in 1..Len(urls) : ~Contains(t.content, urls[u])
            /\ <<"U","R","L">> \in DOMAIN t.defaults
            /\ t.defaults[<<"U","R","L">>] = urls[1]

\* the languages of the examples
ExampleLanguages == {analysis.examples[e].language : e \in 1..Len(analysis.examples)}

\* C14: synthesize_templates produces exactly one template of type basic for
\* every language group present among the input examples.
OneBasicPerLanguage ==
  pc = "done" =>
    \A language \in ExampleLanguages :
      Cardinality({k \in 1..Len(templates) :
                     /\ templates[k].type = TYPE_BASIC
                     /\ templates[k].language = language}) = 1

\* the file save_templates writes the content of template t to
TemplateFile(t) == t.name \o SaveExtension(t.language)

\* the file save_templates writes the usage of template t to
UsageFile(t) == t.name \o <<"_","U","S","A","G","E",".","m","d">>

\* C15: after save_templates every template of the list persists as its own
\* template file holding its content and its own usage file holding its usage
\* example, none overwritten by another template of the list, and the metadata
\* document's total_templates and the length of its templates array both equal
\* the number of templates.
EveryTemplatePersists ==
  (MainDone /\ templates # <<>>) =>
    /\ \A k \in 1..Len(templates) :
         /\ TemplateFile(templates[k]) \in DOMAIN saved.files
         /\ saved.files[TemplateFile(templates[k])] = templates[k].content
         /\ UsageFile(templates[k]) \in DOMAIN saved.files
         /\ saved.files[UsageFile(templates[k])] = templates[k].usage_example
    /\ saved.metadata[1].total_templates = Len(templates)
    /\ Len(saved.metadata[1].templates) = Len(templates)

----------------------------------------------------------------------------
(* Properties of the classification's reasoning                            *)

\* C16: the reasoning list classify_tool_type returns is non-empty for every
\* corpus.
ReasoningNonEmpty ==
  Analyzed => Len(analysis.tool_type_reasoning) >= 1

----------------------------------------------------------------------------
(* Properties of the validation                                            *)

\* main ran with --validate and reached the validation loop
Validated == MainDone /\ validation # <<>>

\* C17: validate_template_syntax reports is_valid = false exactly when the
\* content's count of '${' differs from its count of '}'; warnings and
\* suggestions never make a template invalid; the validation leaves the
\* templates as they are without it and never prevents their saving.
ValidityIsPlaceholderBalance ==
  Validated =>
    /\ Len(validation) = Len(templates)
    /\ \A k \in 1..Len(templates) :
         /\ validation[k].is_valid <=>
              Count(templates[k].content, <<"$","{">>)
                = Count(templates[k].content, <<"}">>)
         /\ TemplateFile(templates[k]) \in DOMAIN saved.files
         /\ UsageFile(templates[k]) \in DOMAIN saved.files
         /\ saved.metadata[1].templates[k] = MetadataEntry(templates[k])
    /\ saved.metadata[1].total_templates = Len(templates)
    /\ templates \in PostProcessed(
                       synthesize_templates(analysis.examples, analysis.patterns,
                                            analysis.tool_type, clock),
                       analysis.examples)

\* a validated list with an invalid template and a valid one that carries a
\* warning and a suggestion, both saved
InvalidAndWarnedSaved ==
  /\ Validated
  /\ \E k \in 1..Len(templates) :
       /\ ~validation[k].is_valid
       /\ saved.files[TemplateFile(templates[k])] = templates[k].content
  /\ \E k \in 1..Len(templates) :
       /\ validation[k].is_valid
       /\ validation[k].warnings # <<>>
       /\ validation[k].suggestions # <<>>
       /\ saved.files[TemplateFile(templates[k])] = templates[k].content

----------------------------------------------------------------------------
(* Properties of the stages' inputs                                        *)

----------------------------------------------------------------------------
(* Properties of the workflows                                             *)

\* the lines of page p of the corpus that hold a workflow header keyword
HeaderLines(p) ==
  {i \in 1..Len(LinesOfPage(p)) : IsWorkflowHeader(LinesOfPage(p)[i])}

\* the stripped step lines between header line h of page p and the next
\* header line of the page, or the end of the page
StepsAfter(p, h) ==
  LET lines == LinesOfPage(p)
      later == {i \in HeaderLines(p) : i > h}
      end   == IF later = {} THEN Len(lines) + 1 ELSE MinOf(later)
      found == SelectSeq(SubSeq(lines, h + 1, end - 1), IsStepLine)
  IN  [k \in 1..Len(found) |-> Strip(found[k])]

\* the header lines of page p that are followed by a step, in page order
HeadersWithSteps(p) ==
  SelectSeq([i \in 1..Len(LinesOfPage(p)) |-> i],
            LAMBDA i : i \in HeaderLines(p) /\ StepsAfter(p, i) # <<>>)

\* the name, the steps and the source the claim gives each such header
WorkflowsOfHeaders(p) ==
  [k \in 1..Len(HeadersWithSteps(p)) |->
     [name        |-> Strip(StripChars(LinesOfPage(p)[HeadersWithSteps(p)[k]], {"#"})),
      steps       |-> StepsAfter(p, HeadersWithSteps(p)[k]),
      source_urls |-> <<corpus.pages[p].url>>]]

\* C19: each workflow header that is followed by at least one step line before
\* the next header or the end of the page yields exactly one Workflow, whose
\* steps are exactly those step lines in order, whether the workflow is closed
\* by a following header or is the last of its page.
HeadersYieldTheirSteps ==
  Analyzed =>
    [w \in 1..Len(analysis.workflows) |->
       [name        |-> analysis.workflows[w].name,
        steps       |-> analysis.workflows[w].steps,
        source_urls |-> analysis.workflows[w].source_urls]]
      = Concat([p \in 1..Len(corpus.pages) |-> WorkflowsOfHeaders(p)])

\* the corpus that holds page p of the corpus alone
PageAlone(p) == [corpus EXCEPT !.pages = <<corpus.pages[p]>>]

\* C20: the state of the workflow scanner is per page: every page starts with
\* no current workflow, so the workflows of a corpus are those of its pages
\* each scanned alone, step lines before the first header of a page attach to
\* no workflow even when the previous page ended inside one, and the steps and
\* the source of each workflow come from a single page.
ScannerStartsAfreshOnEachPage ==
  Analyzed =>
    /\ analysis.workflows
         = Concat([p \in 1..Len(corpus.pages) |-> extract_workflows(PageAlone(p))])
    /\ \A w \in 1..Len(analysis.workflows) :
         \E p \in 1..Len(corpus.pages) :
           /\ analysis.workflows[w].source_urls = <<corpus.pages[p].url>>
           /\ \A s \in 1..Len(analysis.workflows[w].steps) :
                \E i \in 1..Len(LinesOfPage(p)) \ HeaderLines(p) :
                  /\ i > MinOf(HeaderLines(p))
                  /\ analysis.workflows[w].steps[s] = Strip(LinesOfPage(p)[i])

\* an analysis of a corpus with a page that ends inside a workflow with steps,
\* followed by a page that holds a step line before its first header
StepAfterOpenWorkflow ==
  /\ Analyzed
  /\ \E p \in 1..(Len(corpus.pages) - 1) :
       /\ HeaderLines(p) # {}
       /\ StepsAfter(p, MaxOf(HeaderLines(p))) # <<>>
       /\ HeaderLines(p + 1) # {}
       /\ \E i \in 1..(MinOf(HeaderLines(p + 1)) - 1) : IsStepLine(LinesOfPage(p + 1)[i])
  /\ Len(analysis.workflows) >= 2

----------------------------------------------------------------------------
(* Properties of the classification's winner                               *)

\* C21: when some indicator score is non-zero, classify_tool_type returns a
\* type whose score is at least every other type's score, the first such type
\* in the order CLI, API, LIBRARY, FRAMEWORK when several share the top score,
\* with a confidence of that score divided by the sum of the four scores.
WinnerIsFirstHighest ==
  Analyzed =>
    LET scores == Scores(corpus)
    IN  (\E t \in 1..4 : scores[t] > 0) =>
          \E t \in 1..4 :
            /\ analysis.tool_type = ScoredTypes[t]
            /\ \A u \in 1..4 : scores[u] <= scores[t]
            /\ \A u \in 1..(t - 1) : scores[u] < scores[t]
            /\ analysis.tool_type_confidence =
                 [num |-> scores[t], den |-> SumSeq(scores)]

\* a classification of a corpus in which two types share a non-zero top score
TopScoreShared ==
  /\ Analyzed
  /\ LET scores == Scores(corpus)
     IN  \E t \in 1..4 :
           /\ scores[t] > 0
           /\ \A u \in 1..4 : scores[u] <= scores[t]
           /\ \E u \in (t + 1)..4 : scores[u] = scores[t]
           /\ analysis.tool_type = ScoredTypes[t]

----------------------------------------------------------------------------
(* Properties of the examples' context and title                           *)

RECURSIVE FenceStarts(_, _)
\* the positions of the opening fences of the blocks re.findall returns,
\* scanning from position i
FenceStarts(s, i) ==
  LET at == {k \in i..Len(s) : FenceMatchAt(s, k) # <<>>}
  IN  IF at = {} THEN <<>>
      ELSE <<MinOf(at)>> \o FenceStarts(s, FenceMatchAt(s, MinOf(at))[1].next)

\* the stripped text of the up to n characters of page r[1] that precede the
\* opening fence of its block r[2]
TextBefore(r, n) ==
  LET content == corpus.pages[r[1]].content
      pos     == FenceStarts(content, 1)[r[2]]
  IN  Strip(SubSeq(content, Max(1, pos - n), pos - 1))

\* the example made from block r
ExampleOf(r) == analysis.examples[Cardinality(BlocksBefore(r)) + 1]

\* C22: the context of every CodeExample, tagged or untagged and also when
\* the block's text occurs more than once on the page, is taken from the
\* characters that immediately precede the block's own opening fence: the
\* last 100 of the stripped text before it.
ContextPrecedesOwnFence ==
  Analyzed =>
    \A r \in BlockRefs : ExampleOf(r).context = LastN(TextBefore(r, 200), 100)

\* the heading lines among the lines of the text before block r
HeadingsBefore(r) ==
  SelectSeq(Split(TextBefore(r, 200), NL),
            LAMBDA line : Len(line) > 0 /\ line[1] = "#")

\* C23: the title of every CodeExample is the text of the heading line nearest
\* to the block among the heading lines within the 200 characters preceding
\* it, and "Example N" when there is none, N being the 1-based position of the
\* example in the list of the whole corpus.
TitleIsNearestHeading ==
  Analyzed =>
    \A r \in BlockRefs :
      ExampleOf(r).title =
        IF HeadingsBefore(r) = <<>>
          THEN <<"E","x","a","m","p","l","e"," ">> \o Str(Cardinality(BlocksBefore(r)) + 1)
          ELSE Strip(StripChars(HeadingsBefore(r)[Len(HeadingsBefore(r))], {"#"}))

----------------------------------------------------------------------------
(* Properties of the pattern candidates                                    *)

\* the trimmed lines of the code of an example
TrimmedLines(example) ==
  {Strip(Split(example.code, NL)[k]) : k \in 1..Len(Split(example.code, NL))}

\* the examples of a language that hold line l
HoldersOf(l, language) ==
  {e \in 1..Len(analysis.examples) :
     /\ analysis.examples[e].language = language
     /\ l \in TrimmedLines(analysis.examples[e])}

\* C24: a trimmed code line is a pattern candidate exactly when its length is
\* at least 10 and it appears in at least 2 examples of the same language: a
\* line of exactly 10 characters shared by two examples of a language is
\* reported as a pattern (unless the cap of 10 cut the list), and a line of 9
\* characters never is.
TenCharactersQualify ==
  Analyzed =>
    /\ \A p \in 1..Len(analysis.patterns) :
         /\ Len(analysis.patterns[p].common_structure) >= 10
         /\ \E language \in ExampleLanguages :
              /\ analysis.patterns[p].name
                   = Upper(language) \o <<" ","c","o","m","m","o","n"," ","p","a","t","t","e","r","n">>
              /\ Cardinality(HoldersOf(analysis.patterns[p].common_structure, language)) >= 2
    /\ Len(analysis.patterns) < MaxPatterns =>
         \A language \in ExampleLanguages :
           \A e \in 1..Len(analysis.examples) :
             \A l \in TrimmedLines(analysis.examples[e]) :
               (Len(l) >= 10 /\ Cardinality(HoldersOf(l, language)) >= 2) =>
                 \E p \in 1..Len(analysis.patterns) :
                   analysis.patterns[p].common_structure = l

----------------------------------------------------------------------------
(* Properties of the gap indicators                                        *)

\* the occurrences of gap-indicator phrases in the pages, matched without
\* regard to case, as <<page, indicator>> index pairs
PhraseMatches ==
  {m \in (1..Len(corpus.pages)) \X (1..Len(GAP_INDICATORS)) :
     Contains(Lower(corpus.pages[m[1]].content), Lower(GAP_INDICATORS[m[2]]))}

\* the gaps returned for indicator i
GapsNoting(i) ==
  {g \in 1..Len(analysis.gaps) :
     analysis.gaps[g].notes
       = <<"F","o","u","n","d"," ","i","n","d","i","c","a","t","o","r",":"," ","'">>
           \o GAP_INDICATORS[i] \o <<"'">>}

\* C25: for each page and each phrase of the gap-indicator list, TODO and WIP
\* included, that occurs in the page's content, matched case-insensitively,
\* analyze_gaps produces exactly one Gap, however often the phrase occurs on
\* the page, before the cap of 20 is applied.
OneGapPerPhraseAndPage ==
  (Analyzed /\ Cardinality(PhraseMatches) <= MaxGaps) =>
    /\ Len(analysis.gaps) = Cardinality(PhraseMatches)
    /\ \A i \in 1..Len(GAP_INDICATORS) :
         Cardinality(GapsNoting(i)) = Cardinality({m \in PhraseMatches : m[2] = i})

----------------------------------------------------------------------------
(* Properties of the advanced templates                                    *)

\* the patterns template t can have been synthesized from
PatternsOf(t) ==
  {p \in 1..Len(analysis.patterns) :
     /\ t.metadata.pattern_name = analysis.patterns[p].name
     /\ t.metadata.pattern_description = analysis.patterns[p].description
     /\ Contains(t.content, analysis.patterns[p].common_structure)}

\* C26: synthesize_templates emits an advanced template for a language group
\* from a pattern only if an example referenced by the pattern's example_ids,
\* indices into the example list of the whole corpus, belongs to that group.
AdvancedFromOwnLanguage ==
  pc = "done" =>
    \A k \in 1..Len(templates) :
      templates[k].type = TYPE_ADVANCED =>
        \E p \in PatternsOf(templates[k]) :
          \E e \in 1..Len(analysis.patterns[p].example_ids) :
            analysis.examples[analysis.patterns[p].example_ids[e] + 1].language
              = templates[k].language

----------------------------------------------------------------------------
(* Properties of the inline comments                                       *)

\* the lines add_inline_comments received for basic template t: the
\* generalized code of its source example
OriginalLines(t) == Split(_generalize_code(SourceExample(t).code, t.language), NL)

\* the number of the first n lines that hold a ${NAME} token
TokenLines(lines, n) == Cardinality({j \in 1..n : FindPlaceholders(lines[j]) # <<>>})

\* C27: the output of add_inline_comments consists of the original content
\* lines, unchanged and in their order, interleaved only with added lines that
\* each begin with the language's comment marker: a header block first, and
\* exactly one comment line directly above each content line that holds a
\* ${NAME} token.
OnlyCommentLinesAdded ==
  pc = "done" =>
    \A k \in 1..Len(templates) :
      templates[k].type = TYPE_BASIC =>
        LET original == OriginalLines(templates[k])
            marker   == _get_comment_syntax(templates[k].language)
            out      == Split(templates[k].content, NL)
            n        == Len(original) + TokenLines(original, Len(original))
            header   == SubSeq(out, 1, Len(out) - n)
            body     == SubSeq(out, Len(out) - n + 1, Len(out))
        IN  /\ Len(out) > n
            /\ \A h \in 1..Len(header) : StartsAt(header[h], marker, 1)
            /\ \A i \in 1..Len(original) :
                 /\ body[i + TokenLines(original, i)] = original[i]
                 /\ FindPlaceholders(original[i]) # <<>> =>
                      StartsAt(body[i + TokenLines(original, i) - 1], marker, 1)

----------------------------------------------------------------------------
(* SkillCreator.run of create_skill.py: the six phases, the PipelineState  *)
(* and the state file of the output directory.  An Optional value is <<>>  *)
(* for None and <<v>> for the value v; a time is the number of the run     *)
(* that read it; the lists skip_phases and only_phases, which the code     *)
(* only tests for membership, are sets.                                    *)

\* the runs on one output directory that are followed
MaxRuns == 3

\* Phase: EXTRACTION = 1 ... SKILL_MD = 6
Phase == 1..6

\* Phase(n).name
PhaseName ==
  <<"EXTRACTION", "ANALYSIS", "TEMPLATES", "GUARDRAILS", "ASSETS", "SKILL_MD">>

\* the PipelineConfig values of the command line: --dry-run, --resume,
\* --from-phase, --skip-phases and --only-phases
PipelineConfigs ==
  [dry_run : BOOLEAN, resume : BOOLEAN, from_phase : {1, 3},
   skip_phases : {{}, {3}, {2, 5}}, only_phases : {{}, {1, 2}}]

\* PipelineState(config=asdict(self.config), started_at=now)
NewState(cfg, now) ==
  [config           |-> cfg,
   completed_phases |-> <<>>,
   current_phase    |-> <<>>,
   phase_outputs    |-> {},
   errors           |-> <<>>,
   started_at       |-> <<now>>,
   completed_at     |-> <<>>]

\* PipelineState.is_phase_complete
is_phase_complete(s, p) ==
  \E i \in DOMAIN s.completed_phases : s.completed_phases[i] = p

\* PipelineState.mark_phase_complete; every runner passes an output path,
\* kept here as the phase it belongs to
mark_phase_complete(s, p) ==
  [s EXCEPT !.completed_phases = IF is_phase_complete(s, p) THEN @
                                 ELSE Append(@, p),
            !.phase_outputs = @ \cup {PhaseName[p]}]

\* PipelineState.record_error; the text of the exception is left out
record_error(s, p, now) ==
  [s EXCEPT !.errors = Append(@, [phase        |-> PhaseName[p],
                                  phase_number |-> p,
                                  timestamp    |-> now])]

\* SkillCreator.load_state: None when there is no state file, else the
\* PipelineState that save_state wrote
load_state(file) == file

\* SkillCreator.save_state: nothing is written in a dry run
save_state(cfg, s, file) == IF cfg.dry_run THEN file ELSE <<s>>

\* should_run_phase without its first test: a completed phase runs again
RunsCompletedAgain(cfg, s, p) ==
  IF cfg.from_phase > p THEN FALSE
  ELSE IF p \in cfg.skip_phases THEN FALSE
  ELSE IF cfg.only_phases # {} /\ p \notin cfg.only_phases THEN FALSE
  ELSE TRUE

\* SkillCreator.should_run_phase
should_run_phase(cfg, s, p) ==
  IF is_phase_complete(s, p) THEN FALSE
  ELSE IF cfg.from_phase > p THEN FALSE
  ELSE IF p \in cfg.skip_phases THEN FALSE
  ELSE IF cfg.only_phases # {} /\ p \notin cfg.only_phases THEN FALSE
  ELSE TRUE

\* run_phase_1_extraction ... run_phase_6_skill_md, as far as the pipeline
\* state goes: a dry run returns True at once; otherwise the work of the
\* phase either succeeds, and the phase is marked complete, or raises, and
\* the error is recorded.  The result is the state and the value returned.
run_phase(cfg, s, p, succeeds, now) ==
  IF cfg.dry_run THEN [state |-> s, success |-> TRUE]
  ELSE IF succeeds THEN [state |-> mark_phase_complete(s, p), success |-> TRUE]
  ELSE [state |-> record_error(s, p, now), success |-> FALSE]

\* the output directory exists once a run has saved its state in it
OutputExists == state_file # <<>>

\* run up to the loop over the phases, with the configuration cfg: the
\* state is loaded or made, then create_output_dir asks before it removes
\* an existing directory (overwrite is the answer) and exits on a refusal
RunStart(cfg, overwrite) ==
  /\ rpc \in {"idle", "returned", "exited"}
  /\ runs < MaxRuns
  /\ runs' = runs + 1
  /\ config' = cfg
  /\ LET found == IF cfg.resume THEN load_state(state_file) ELSE <<>>
         s     == IF found = <<>> THEN NewState(cfg, runs + 1) ELSE found[1]
     IN  /\ state' = s
         /\ loaded' = s.completed_phases
  /\ IF OutputExists /\ ~cfg.resume /\ ~cfg.dry_run
       THEN IF overwrite
              THEN /\ state_file' = <<>>
                   /\ rpc' = "loop"
              ELSE /\ state_file' = state_file
                   /\ rpc' = "exited"
       ELSE /\ state_file' = state_file
            /\ rpc' = "loop"
  /\ phase' = 1
  /\ executed' = <<>>
  /\ result' = "none"
  /\ UNCHANGED analysisVars

\* one turn of the loop for a phase that should not run
SkipPhase ==
  /\ rpc = "loop"
  /\ phase \in Phase
  /\ ~should_run_phase(config, state, phase)
  /\ phase' = phase + 1
  /\ UNCHANGED <<config, state, state_file, rpc, executed, loaded, result, runs>>
  /\ UNCHANGED analysisVars

\* one turn of the loop for a phase that should run; succeeds tells whether
\* the work of the phase goes through
RunPhase(succeeds) ==
  /\ rpc = "loop"
  /\ phase \in Phase
  /\ should_run_phase(config, state, phase)
  /\ LET current == [state EXCEPT !.current_phase = <<phase>>]
         written == save_state(config, current, state_file)
         ran     == run_phase(config, current, phase, succeeds, runs)
     IN  IF ran.success
           THEN /\ state' = ran.state
                /\ state_file' = save_state(config, state', written)
                /\ phase' = phase + 1
                /\ UNCHANGED <<rpc, result>>
           ELSE /\ state' = [ran.state EXCEPT !.current_phase = <<>>]
                /\ state_file' = save_state(config, state', written)
                /\ rpc' = "returned"
                /\ result' = "False"
                /\ phase' = phase
  /\ executed' = Append(executed, phase)
  /\ UNCHANGED <<config, loaded, runs>>
  /\ UNCHANGED analysisVars

\* the end of run after the loop
RunComplete ==
  /\ rpc = "loop"
  /\ phase \notin Phase
  /\ state' = [state EXCEPT !.current_phase = <<>>, !.completed_at = <<runs>>]
  /\ state_file' = save_state(config, state', state_file)
  /\ rpc' = "returned"
  /\ result' = "True"
  /\ UNCHANGED <<config, phase, executed, loaded, runs>>
  /\ UNCHANGED analysisVars

PipelineInit ==
  /\ corpus = MakeCorpus(<<>>)
  /\ pc = "start"
  /\ analysis = <<>>
  /\ templates = <<>>
  /\ saved = EmptyDir
  /\ clock = 0
  /\ run = 1
  /\ driver = "none"
  /\ first = <<>>
  /\ validation = <<>>
  /\ NoRunYet

PipelineNext ==
  \/ \E cfg \in PipelineConfigs, overwrite \in BOOLEAN : RunStart(cfg, overwrite)
  \/ SkipPhase
  \/ \E succeeds \in BOOLEAN : RunPhase(succeeds)
  \/ RunComplete

PipelineSpec == PipelineInit /\ [][PipelineNext]_vars

----------------------------------------------------------------------------
(* Properties of SkillCreator.run.                                         *)

\* run has returned the value v
Returned(v) == rpc = "returned" /\ result = v

\* the phase whose runner was called last in this run
LastExecuted == executed[Len(executed)]

\* C28: when a phase runner fails, run returns False with that phase as the
\* last one executed in the run, an error entry for it is recorded, the
\* phase is not in completed_phases, completed_at is unset and current_phase
\* is None
FailedRunLeavesNoCompletion ==
  Returned("False") =>
    /\ executed # <<>>
    /\ \E i \in DOMAIN state.errors :
         /\ state.errors[i].phase_number = LastExecuted
         /\ state.errors[i].timestamp = runs
    /\ ~is_phase_complete(state, LastExecuted)
    /\ state.completed_at = <<>>
    /\ state.current_phase = <<>>

\* the phases a run that starts from the completed phases done has to
\* execute under the configuration cfg
Eligible(cfg, done) ==
  {p \in Phase : /\ p \notin Range(done)
                 /\ p >= cfg.from_phase
                 /\ p \notin cfg.skip_phases
                 /\ (cfg.only_phases = {} \/ p \in cfg.only_phases)}

\* the phases the loop has dealt with: those before the one it is at, and
\* the one at which it failed
Passed == {p \in Phase : p < phase \/ (Returned("False") /\ p = phase)}

\* C29: in a resumed run no phase that the loaded state records as completed
\* is executed; the phases executed so far are exactly the other phases from
\* from_phase on that skip_phases and only_phases let through, up to the
\* point the loop has reached or failed at, in strictly increasing order and
\* each once; completed_phases holds no phase twice
ResumedRunExecutesTheRest ==
  (rpc \in {"loop", "returned"} /\ config.resume) =>
    /\ \A i \in DOMAIN executed : executed[i] \notin Range(loaded)
    /\ \A i, j \in DOMAIN executed : i < j => executed[i] < executed[j]
    /\ Range(executed) = Eligible(config, loaded) \cap Passed
    /\ \A i, j \in DOMAIN state.completed_phases :
         i # j => state.completed_phases[i] # state.completed_phases[j]

\* a resumed run that found completed phases in the state file and has
\* executed two more phases
ResumedAfterCompletedPhases ==
  /\ rpc = "returned"
  /\ config.resume
  /\ loaded # <<>>
  /\ Len(executed) >= 2

\* C30: whenever completed_at is set, which is when print_summary reports
\* 'Skill creation complete!', all six phases are in completed_phases,
\* whatever dry_run, resume, from_phase, skip_phases and only_phases are
CompletedMeansAllPhases ==
  (rpc # "idle" /\ state.completed_at # <<>>) =>
    \A p \in Phase : is_phase_complete(state, p)

====
